---- MODULE Spec2Model ----
(***************************************************************************)
(* State-machine model of the application (src/src/main.rs), of its       *)
(* WebAssembly plugin runtime (src/src/plugin_runtime.rs) and of the game  *)
(* plugin (src/plugins/game-plugin).                                       *)
(*                                                                         *)
(* The fields of Template and of PluginRuntime are the variables.  Every   *)
(* method is an operator from a state (a record of all fields, see         *)
(* Runtime) to the state after the call; an action applies one whole       *)
(* handler to the current state.  The application starts without a         *)
(* runtime (Init); initialize creates it.  `world` is the host scene       *)
(* graph, `trace` the observable steps of the most recent handler call, in *)
(* the order in which the code took them.  A panic ends the run: the       *)
(* state keeps the fields of the handler's entry and the trace up to the   *)
(* panic.                                                                  *)
(***************************************************************************)
EXTENDS Integers, Sequences, FiniteSets, TLC

(***************************************************************************)
(* Bounds of the model and constants of the program.                       *)
(***************************************************************************)
CLEANUP_INTERVAL_FRAMES == 60

MaxPlugins == 2

MaxEntities == 4

MaxTextures == 2

MaxInputs == 2

MaxPending == 2

MaxJobs == 1

MaxWorldCommands == 2

MaxLoaded == 4

MaxFrames == 2

MaxGcFrames == 121

MaxTableFrames == 60

MaxIds == 2

MaxCommandFrames == 3

MaxPathLen == 3

MaxEnemies == 2

MaxItems == 1

MaxGameFrames == 3

MaxWaves == 2

MaxAlive == 2

MaxScore == 35

MaxRequests == 1

\* The number of bits of a u32 in the model of host_send_command's bounds
\* check: pointers and lengths are below 2^Width, a guest memory holds up
\* to 2^Width bytes.
Width == 3

None == 0

(***************************************************************************)
(* Generic helpers on finite maps and sequences.                           *)
(***************************************************************************)
EmptyMap == [k \in {} |-> 0]

Has(m, k) == k \in DOMAIN m

MapPut(m, k, v) == [x \in (DOMAIN m) \cup {k} |-> IF x = k THEN v ELSE m[x]]

MapRemove(m, k) == [x \in (DOMAIN m) \ {k} |-> m[x]]

MapGet(m, k) == IF k \in DOMAIN m THEN m[k] ELSE None

Range(f) == {f[x] : x \in DOMAIN f}

RECURSIVE FoldLeft(_, _, _)
FoldLeft(Op(_, _), acc, seq) ==
  IF seq = <<>> THEN acc ELSE FoldLeft(Op, Op(acc, Head(seq)), Tail(seq))

RECURSIVE SetToSeq(_)
SetToSeq(S) ==
  IF S = {} THEN <<>>
  ELSE LET m == CHOOSE x \in S : \A y \in S : x <= y
       IN <<m>> \o SetToSeq(S \ {m})

(***************************************************************************)
(* Messages.  EngineEvent and EngineCommand are tagged variants; a record  *)
(* carries the tag in `type` and the fields of the variant (0, "" or <<>>  *)
(* where the variant has no such field).  Floats (positions, scales,       *)
(* rotations, delta_time) and byte buffers are opaque tokens.  The `path`  *)
(* of a command holds its string field: a path, as the sequence of its     *)
(* components, or the message of a Log command.                            *)
(***************************************************************************)
Ev(type, request_id, id, x, text) ==
  [type |-> type, request_id |-> request_id, id |-> id, x |-> x, text |-> text]

NoEv == Ev("None", 0, 0, 0, "")

Cmd(type, request_id, entity_id, path, x) ==
  [type |-> type, request_id |-> request_id, entity_id |-> entity_id,
   path |-> path, x |-> x]

NoCmd == Cmd("None", 0, 0, <<>>, 0)

T(fn, k, plugin, ev, cmd, res, ids) ==
  [fn |-> fn, k |-> k, plugin |-> plugin, ev |-> ev, cmd |-> cmd, res |-> res,
   ids |-> ids]

VARIABLES
  plugins,
  plugin_id_to_index,
  entity_map,
  reverse_entity_map,
  texture_id_to_name,
  async_channel,
  workers,
  pending_input_events,
  last_mouse_position,
  next_entity_id,
  next_texture_id,
  next_plugin_id,
  frames_since_cleanup,
  world,
  trace,
  last_gc,
  call,
  hist,
  game_state,
  game_plugin,
  plugin_runtime,
  panicked

vars ==
  <<plugins, plugin_id_to_index, entity_map, reverse_entity_map,
    texture_id_to_name, async_channel, workers, pending_input_events,
    last_mouse_position, next_entity_id, next_texture_id, next_plugin_id,
    frames_since_cleanup, world, trace, last_gc, call, hist, game_state,
    game_plugin, plugin_runtime, panicked>>

(***************************************************************************)
(* The host world (external collaborator).  An entity is a natural number  *)
(* handed out by the scene graph, never twice.  `local` maps the entities  *)
(* that have a local transform to it, `global` holds the entities with a   *)
(* global transform, `material` maps the entities that have a material to  *)
(* its base texture (<<>>: none), `base_color` maps the entities whose     *)
(* material was given a colour to it, `mesh_cache` holds the names of the  *)
(* meshes in the cache, `commands` is the world command queue.             *)
(***************************************************************************)
WorldCmd(type, entity, name) == [type |-> type, entity |-> entity, name |-> name]

Transform(t, sc, r) == [translation |-> t, scale |-> sc, rotation |-> r]

InitWorld ==
  [local |-> EmptyMap, global |-> {}, material |-> EmptyMap, base_color |-> EmptyMap,
   mesh_cache |-> {}, next_entity |-> 1, commands |-> <<>>, mouse |-> 0,
   frame_counter |-> 0, dirty |-> {}, should_exit |-> FALSE]

\* GameState::default (main.rs): the state of the host game layer.
DefaultGameState ==
  [enemies |-> EmptyMap, items |-> {}, player_health |-> 100, player_max_health |-> 100,
   player_score |-> 0, next_enemy_id |-> 1, next_item_id |-> 1]

\* GamePluginState::default (game-plugin), with the request id counter of
\* the shared crate the plugin is linked with.
DefaultGamePluginState ==
  [initialized |-> FALSE, wave_number |-> 0, enemies_alive |-> 0, enemies |-> EmptyMap,
   player_score |-> 0, spawn_timer |-> 0, wave_active |-> FALSE, next_request_id |-> 1]

\* spawn_cube_at & co.: a new entity with transforms and a material.
SpawnPrimitiveAt(w, pos) ==
  [w EXCEPT !.local = MapPut(@, w.next_entity, Transform(pos, 1, 0)),
            !.global = @ \cup {w.next_entity},
            !.material = MapPut(@, w.next_entity, <<>>),
            !.next_entity = @ + 1]

\* spawn_prefab: a new entity with transforms; the root carries no material.
SpawnPrefabAt(w, pos) ==
  [w EXCEPT !.local = MapPut(@, w.next_entity, Transform(pos, 1, 0)),
            !.global = @ \cup {w.next_entity},
            !.next_entity = @ + 1]

QueueCommand(w, c) == [w EXCEPT !.commands = Append(@, c)]

DestroyEntity(w, e) ==
  [w EXCEPT !.local = MapRemove(@, e), !.global = @ \ {e},
            !.material = MapRemove(@, e), !.base_color = MapRemove(@, e),
            !.dirty = @ \ {e}]

is_entity_valid(w, entity) == Has(w.local, entity) \/ entity \in w.global

(***************************************************************************)
(* The runtime state as one value, and its write-back.  trace, last_gc and *)
(* call describe the handler call being applied (its steps, its GC pass,   *)
(* its name and the state it started from); hist records, over the whole   *)
(* run, the ids register_entity allocated (issued, in order), the (id,     *)
(* entity) pairs it returned and that were not unregistered since (live),  *)
(* the number of run_frame calls (frame_calls) and, for each id in the     *)
(* table whose entity is gone, the run_frame calls it has survived since   *)
(* (stale) and, for each plugin whose on_frame trapped in the last         *)
(* run_frame call, the number of calls in a row in which it trapped        *)
(* (traps), and the requests processed so far, each as <<plugin id,        *)
(* request id, command type>> (asked).  guest and collected are locals of the handler: the guests'    *)
(* behaviour during the call, and the command list collect_*_commands      *)
(* returns.                                                                *)
(***************************************************************************)
NoGc == [ran |-> FALSE, before |-> EmptyMap, after |-> EmptyMap, world |-> InitWorld]

Runtime ==
  [plugins |-> plugins,
   plugin_id_to_index |-> plugin_id_to_index,
   entity_map |-> entity_map,
   reverse_entity_map |-> reverse_entity_map,
   texture_id_to_name |-> texture_id_to_name,
   async_channel |-> async_channel,
   workers |-> workers,
   pending_input_events |-> pending_input_events,
   last_mouse_position |-> last_mouse_position,
   next_entity_id |-> next_entity_id,
   next_texture_id |-> next_texture_id,
   next_plugin_id |-> next_plugin_id,
   frames_since_cleanup |-> frames_since_cleanup,
   world |-> world,
   trace |-> <<>>,
   last_gc |-> NoGc,
   call |-> call,
   hist |-> hist,
   game_state |-> game_state,
   game_plugin |-> game_plugin,
   plugin_runtime |-> plugin_runtime,
   panicked |-> panicked,
   guest |-> EmptyMap,
   collected |-> <<>>]

\* A panic in the host ends the program: the handler does not return, and
\* what it did is lost with the process.  The variables keep the values
\* they had when the handler was entered; the trace holds the steps up to
\* the panic.
Outcome(s) ==
  IF s.panicked
  THEN LET at == CHOOSE k \in 1..Len(s.trace) :
                   /\ s.trace[k].k = "panic"
                   /\ \A j \in 1..(k - 1) : s.trace[j].k # "panic"
       IN [Runtime EXCEPT !.panicked = TRUE, !.call = s.call,
                          !.trace = SubSeq(s.trace, 1, at)]
  ELSE s

\* No handler runs once the program has panicked.
Commit(r) ==
  /\ ~panicked
  /\ \E s \in {Outcome(r)} :
    /\ plugins' = s.plugins
    /\ plugin_id_to_index' = s.plugin_id_to_index
    /\ entity_map' = s.entity_map
    /\ reverse_entity_map' = s.reverse_entity_map
    /\ texture_id_to_name' = s.texture_id_to_name
    /\ async_channel' = s.async_channel
    /\ workers' = s.workers
    /\ pending_input_events' = s.pending_input_events
    /\ last_mouse_position' = s.last_mouse_position
    /\ next_entity_id' = s.next_entity_id
    /\ next_texture_id' = s.next_texture_id
    /\ next_plugin_id' = s.next_plugin_id
    /\ frames_since_cleanup' = s.frames_since_cleanup
    /\ world' = s.world
    /\ trace' = s.trace
    /\ last_gc' = s.last_gc
    /\ call' = s.call
    /\ hist' = s.hist
    /\ game_state' = s.game_state
    /\ game_plugin' = s.game_plugin
    /\ plugin_runtime' = s.plugin_runtime
    /\ panicked' = s.panicked

Log(s, entry) == [s EXCEPT !.trace = Append(@, entry)]

(***************************************************************************)
(* Entity handle table.  Issued and Returned only write the history: the   *)
(* ids allocated, in order, and the (id, entity) pairs register_entity     *)
(* returned that unregister_entity has not been called on since.           *)
(***************************************************************************)
Issued(s, id) == [s EXCEPT !.hist.issued = Append(@, id)]

Returned(s, id, entity) == [s EXCEPT !.hist.live = @ \cup {<<id, entity>>}]

Unregistered(s, id) == [s EXCEPT !.hist.live = {p \in @ : p[1] # id}]

generate_entity_id_reuse(s) ==
  LET free == {i \in 1..s.next_entity_id : ~Has(s.entity_map, i)}
      id == CHOOSE i \in free : \A j \in free : i <= j
  IN [s |-> Issued([s EXCEPT !.next_entity_id = IF id = @ THEN @ + 1 ELSE @], id),
      id |-> id]

generate_entity_id_stuck(s) ==
  [s |-> Issued(s, s.next_entity_id), id |-> s.next_entity_id]

generate_entity_id(s) ==
  [s |-> Issued([s EXCEPT !.next_entity_id = @ + 1], s.next_entity_id),
   id |-> s.next_entity_id]

generate_texture_id_stuck(s) ==
  [s |-> s, id |-> s.next_texture_id]

generate_texture_id(s) ==
  [s |-> [s EXCEPT !.next_texture_id = @ + 1], id |-> s.next_texture_id]

generate_plugin_id_stuck(s) ==
  [s |-> s, id |-> s.next_plugin_id]

generate_plugin_id(s) ==
  [s |-> [s EXCEPT !.next_plugin_id = @ + 1], id |-> s.next_plugin_id]

register_entity_always_new(s, entity) ==
  LET g == generate_entity_id(s)
  IN [s |-> Returned([g.s EXCEPT !.entity_map = MapPut(@, g.id, entity),
                                 !.reverse_entity_map = MapPut(@, entity, g.id)],
                     g.id, entity),
      id |-> g.id]

register_entity(s, entity) ==
  IF Has(s.reverse_entity_map, entity)
  THEN [s |-> Returned(s, s.reverse_entity_map[entity], entity),
        id |-> s.reverse_entity_map[entity]]
  ELSE LET g == generate_entity_id(s)
       IN [s |-> Returned([g.s EXCEPT !.entity_map = MapPut(@, g.id, entity),
                                      !.reverse_entity_map = MapPut(@, entity, g.id)],
                          g.id, entity),
           id |-> g.id]

get_entity(s, plugin_entity_id) == MapGet(s.entity_map, plugin_entity_id)

unregister_entity_absent_removes_entity(s, plugin_entity_id) ==
  IF Has(s.entity_map, plugin_entity_id)
  THEN Unregistered(
         [s EXCEPT !.entity_map = MapRemove(@, plugin_entity_id),
                   !.reverse_entity_map = MapRemove(@, s.entity_map[plugin_entity_id])],
         plugin_entity_id)
  ELSE Unregistered([s EXCEPT !.reverse_entity_map = MapRemove(@, plugin_entity_id)],
                    plugin_entity_id)

unregister_entity_forward_only(s, plugin_entity_id) ==
  IF Has(s.entity_map, plugin_entity_id)
  THEN Unregistered([s EXCEPT !.entity_map = MapRemove(@, plugin_entity_id)],
                    plugin_entity_id)
  ELSE Unregistered(s, plugin_entity_id)

unregister_entity_deferred(s, plugin_entity_id) ==
  Unregistered(s, plugin_entity_id)

unregister_entity(s, plugin_entity_id) ==
  IF Has(s.entity_map, plugin_entity_id)
  THEN Unregistered(
         [s EXCEPT !.entity_map = MapRemove(@, plugin_entity_id),
                   !.reverse_entity_map = MapRemove(@, s.entity_map[plugin_entity_id])],
         plugin_entity_id)
  ELSE Unregistered(s, plugin_entity_id)

\* What a GC pass did: the table before and after it, the world it read.
GcPass(s, before, w) ==
  [s EXCEPT !.last_gc = [ran |-> TRUE, before |-> before, after |-> s.entity_map,
                         world |-> w]]

cleanup_stale_entities_keeps_stale(s) ==
  LET s1 == [s EXCEPT !.frames_since_cleanup = @ + 1]
  IN IF s1.frames_since_cleanup < CLEANUP_INTERVAL_FRAMES
     THEN Log(s1, T("cleanup_stale_entities", "skip", 0, NoEv, NoCmd, "", {}))
     ELSE LET s2 == [s1 EXCEPT !.frames_since_cleanup = 0]
              stale == {id \in DOMAIN s2.entity_map :
                          is_entity_valid(s2.world, s2.entity_map[id])}
              s3 == FoldLeft(unregister_entity, s2, SetToSeq(stale))
          IN Log(GcPass(s3, s2.entity_map, s2.world),
                 T("cleanup_stale_entities", "gc", 0, NoEv, NoCmd, "", stale))

cleanup_stale_entities_late(s) ==
  LET s1 == [s EXCEPT !.frames_since_cleanup = @ + 1]
  IN IF s1.frames_since_cleanup <= CLEANUP_INTERVAL_FRAMES
     THEN Log(s1, T("cleanup_stale_entities", "skip", 0, NoEv, NoCmd, "", {}))
     ELSE LET s2 == [s1 EXCEPT !.frames_since_cleanup = 0]
              stale == {id \in DOMAIN s2.entity_map :
                          ~is_entity_valid(s2.world, s2.entity_map[id])}
              s3 == FoldLeft(unregister_entity, s2, SetToSeq(stale))
          IN Log(GcPass(s3, s2.entity_map, s2.world),
                 T("cleanup_stale_entities", "gc", 0, NoEv, NoCmd, "", stale))

cleanup_stale_entities(s) ==
  LET s1 == [s EXCEPT !.frames_since_cleanup = @ + 1]
  IN IF s1.frames_since_cleanup < CLEANUP_INTERVAL_FRAMES
     THEN Log(s1, T("cleanup_stale_entities", "skip", 0, NoEv, NoCmd, "", {}))
     ELSE LET s2 == [s1 EXCEPT !.frames_since_cleanup = 0]
              stale == {id \in DOMAIN s2.entity_map :
                          ~is_entity_valid(s2.world, s2.entity_map[id])}
              s3 == FoldLeft(unregister_entity, s2, SetToSeq(stale))
          IN Log(GcPass(s3, s2.entity_map, s2.world),
                 T("cleanup_stale_entities", "gc", 0, NoEv, NoCmd, "", stale))

(***************************************************************************)
(* Plugins.  A wasm module is described by what the runtime can observe of *)
(* it: whether it loads and instantiates, and which exports it has.  What  *)
(* the guest code does when it is called is an input of the handler that   *)
(* calls it (s.guest, one Behaviour per plugin id): the payloads it passes *)
(* to host_send_command in on_init / on_frame and whether that call then   *)
(* traps, the payloads it passes while it handles an event of type         *)
(* react_to, and how a delivery to it fails, if it does.                   *)
(***************************************************************************)
Module(valid, on_init, on_frame, alloc, memory, receive) ==
  [valid |-> valid, on_init |-> on_init, on_frame |-> on_frame,
   alloc |-> alloc, memory |-> memory, receive |-> receive]

PluginInstance(id, m) ==
  [id |-> id, on_init |-> m.on_init, on_frame |-> m.on_frame, alloc |-> m.alloc,
   memory |-> m.memory, receive |-> m.receive, pending_commands |-> <<>>]

\* A call of host_send_command: the pointer and the length the guest
\* passes, the size of its memory at the call, whether the host was built
\* with overflow checks, and what the bytes at [ptr, ptr + len) decode to:
\* the command cmd (ok) or nothing.
Buffer(ptr, len, data_len, overflow_checks, ok, cmd) ==
  [ptr |-> ptr, len |-> len, data_len |-> data_len, overflow_checks |-> overflow_checks,
   ok |-> ok, cmd |-> cmd]

\* A buffer that lies inside the guest memory.
Payload(ok, cmd) == Buffer(1, 2, 2^Width, FALSE, ok, cmd)

Slice(outcome, from, to) == [outcome |-> outcome, from |-> from, to |-> to]

\* The bytes host_send_command copies: the usize sum of ptr and len is
\* compared with the size of the memory, then data[ptr..(ptr + len)] is
\* taken with the end computed in u32.  overflow_checks: the build panics
\* on integer overflow (a debug build); otherwise the sum wraps.  A range
\* whose start is above its end, or whose end is above the size, panics.
command_bytes(ptr, len, data_len, overflow_checks) ==
  IF ptr + len > data_len
  THEN Slice("out_of_bounds", 0, 0)
  ELSE IF ptr + len >= 2^Width /\ overflow_checks
  THEN Slice("panic", 0, 0)
  ELSE LET end == (ptr + len) % (2^Width)
       IN IF ptr > end \/ end > data_len
          THEN Slice("panic", ptr, end)
          ELSE Slice("read", ptr, end)


Behaviour(init, frame, trap, deliver, react_to, react) ==
  [init |-> init, frame |-> frame, trap |-> trap, deliver |-> deliver,
   react_to |-> react_to, react |-> react]

\* The closure registered as env.host_send_command, called by plugin i
\* (position in the plugin list).  A plugin without a memory export and a
\* buffer that is out of bounds are logged and ignored; the slice may
\* panic; bytes that do not decode are logged and discarded.
host_send_command_queues_undecodable(s, i, payload) ==
  LET id == s.plugins[i].id
      slice == command_bytes(payload.ptr, payload.len, payload.data_len,
                             payload.overflow_checks)
  IN IF s.panicked \/ ~s.plugins[i].memory THEN s
     ELSE IF slice.outcome = "out_of_bounds"
     THEN Log(s, T("host_send_command", "discard", id, NoEv, NoCmd, "out_of_bounds", {}))
     ELSE IF slice.outcome = "panic"
     THEN [Log(s, T("host_send_command", "panic", id, NoEv, NoCmd, "panic", {}))
             EXCEPT !.panicked = TRUE]
     ELSE IF payload.ok
     THEN Log([s EXCEPT !.plugins[i].pending_commands = Append(@, payload.cmd)],
              T("host_send_command", "push", id, NoEv, payload.cmd, "", {}))
     ELSE Log([s EXCEPT !.plugins[i].pending_commands =
                          Append(@, [payload.cmd EXCEPT !.type = "Log"])],
              T("host_send_command", "discard", id, NoEv, NoCmd, "undecodable", {}))

host_send_command(s, i, payload) ==
  LET id == s.plugins[i].id
      slice == command_bytes(payload.ptr, payload.len, payload.data_len,
                             payload.overflow_checks)
  IN IF s.panicked \/ ~s.plugins[i].memory THEN s
     ELSE IF slice.outcome = "out_of_bounds"
     THEN Log(s, T("host_send_command", "discard", id, NoEv, NoCmd, "out_of_bounds", {}))
     ELSE IF slice.outcome = "panic"
     THEN [Log(s, T("host_send_command", "panic", id, NoEv, NoCmd, "panic", {}))
             EXCEPT !.panicked = TRUE]
     ELSE IF payload.ok
     THEN Log([s EXCEPT !.plugins[i].pending_commands = Append(@, payload.cmd)],
              T("host_send_command", "push", id, NoEv, payload.cmd, "", {}))
     ELSE Log(s, T("host_send_command", "discard", id, NoEv, NoCmd, "undecodable", {}))

\* A guest call that passes `payloads` to host_send_command, in order.
GuestSends(s, i, payloads) ==
  LET send(acc, payload) == host_send_command(acc, i, payload)
  IN FoldLeft(send, s, payloads)

load_plugin(s, m) ==
  IF ~m.valid
  THEN Log(s, T("load_plugins_from_directory", "load", 0, NoEv, NoCmd, "failed", {}))
  ELSE LET g == generate_plugin_id(s)
           index == Len(g.s.plugins)
       IN Log([g.s EXCEPT !.plugins = Append(@, PluginInstance(g.id, m)),
                          !.plugin_id_to_index = MapPut(@, g.id, index)],
              T("load_plugins_from_directory", "load", g.id, NoEv, NoCmd, "ok", {}))

\* dir.exists: the directory exists; dir.read_dir: read_dir(dir) succeeds;
\* dir.entries: its direct entries in the order the listing yields them, each
\* with its extension and the module the file holds; entry.err: the listing
\* yields an error in place of this entry.  The result (Ok or Err) is left in
\* call.ret; an Err returns at once and keeps what was loaded before it.
load_plugins_from_directory_aborts_on_failure(s, dir) ==
  IF ~dir.exists THEN [s EXCEPT !.call.ret = <<"Ok">>]
  ELSE IF ~dir.read_dir THEN [s EXCEPT !.call.ret = <<"Err">>]
  ELSE LET load(acc, entry) ==
             IF acc.call.ret = <<"Err">> THEN acc
             ELSE IF entry.err THEN [acc EXCEPT !.call.ret = <<"Err">>]
             ELSE IF entry.ext = "wasm"
                  THEN IF entry.module.valid
                       THEN load_plugin(acc, entry.module)
                       ELSE [load_plugin(acc, entry.module) EXCEPT !.call.ret = <<"Err">>]
                  ELSE acc
       IN FoldLeft(load, [s EXCEPT !.call.ret = <<"Ok">>], dir.entries)

load_plugins_from_directory(s, dir) ==
  IF ~dir.exists THEN [s EXCEPT !.call.ret = <<"Ok">>]
  ELSE IF ~dir.read_dir THEN [s EXCEPT !.call.ret = <<"Err">>]
  ELSE LET load(acc, entry) ==
             IF acc.call.ret = <<"Err">> THEN acc
             ELSE IF entry.err THEN [acc EXCEPT !.call.ret = <<"Err">>]
             ELSE IF entry.ext = "wasm" THEN load_plugin(acc, entry.module)
                  ELSE acc
       IN FoldLeft(load, [s EXCEPT !.call.ret = <<"Ok">>], dir.entries)

\* Index (position in the list, from 1) of the plugin, or None.
get_plugin_by_id(s, plugin_id) ==
  IF Has(s.plugin_id_to_index, plugin_id)
     /\ s.plugin_id_to_index[plugin_id] < Len(s.plugins)
  THEN s.plugin_id_to_index[plugin_id] + 1
  ELSE None

(***************************************************************************)
(* Event dispatch.                                                         *)
(***************************************************************************)
DeliveryResult(p, b) ==
  IF ~p.alloc THEN "no_alloc"
  ELSE IF b.deliver = "alloc_trap" THEN "alloc_trap"
  ELSE IF ~p.memory THEN "no_memory"
  ELSE IF b.deliver = "oob" THEN "oob"
  ELSE IF ~p.receive THEN "no_receive"
  ELSE IF b.deliver = "recv_trap" THEN "recv_trap"
  ELSE "received"

\* fn names the method on whose behalf the event is sent.  The entry of a
\* TextureLoaded event records the texture ids that have a name when the
\* event is sent, the entry of a PrefabLoaded or AssetError event the ids of
\* the handle table.
send_event_to_plugin(s, i, ev, fn) ==
  LET p == s.plugins[i]
      b == s.guest[p.id]
      res == DeliveryResult(p, b)
      s1 == IF res \in {"received", "recv_trap"} /\ ev.type \in b.react_to
            THEN GuestSends(s, i, b.react)
            ELSE s
  IN Log(s1, T(fn, "send", p.id, ev, NoCmd, res,
               IF ev.type = "TextureLoaded" THEN DOMAIN s.texture_id_to_name
               ELSE IF ev.type \in {"PrefabLoaded", "AssetError"} THEN DOMAIN s.entity_map
               ELSE {}))

dispatch_event_to_all_stops_at_failure(s, ev, fn) ==
  LET send(acc, i) ==
        IF \E k \in 1..Len(acc.trace) :
             /\ acc.trace[k].k = "send" /\ acc.trace[k].ev = ev
             /\ acc.trace[k].res # "received"
        THEN acc
        ELSE send_event_to_plugin(acc, i, ev, fn)
  IN FoldLeft(send, s, [i \in 1..Len(s.plugins) |-> i])

dispatch_event_to_all(s, ev, fn) ==
  LET send(acc, i) == send_event_to_plugin(acc, i, ev, fn)
  IN FoldLeft(send, s, [i \in 1..Len(s.plugins) |-> i])

dispatch_event_to_plugin_drops_access_denied(s, plugin_id, ev, fn) ==
  LET i == get_plugin_by_id(s, plugin_id)
  IN IF i # None /\ ev.text # "Invalid path: access denied"
     THEN send_event_to_plugin(s, i, ev, fn)
     ELSE Log(s, T(fn, "drop", plugin_id, ev, NoCmd, "no_plugin", {}))

dispatch_event_to_plugin_broadcast(s, plugin_id, ev, fn) ==
  dispatch_event_to_all(s, ev, fn)

dispatch_event_to_plugin(s, plugin_id, ev, fn) ==
  LET i == get_plugin_by_id(s, plugin_id)
  IN IF i # None
     THEN send_event_to_plugin(s, i, ev, fn)
     ELSE Log(s, T(fn, "drop", plugin_id, ev, NoCmd, "no_plugin", {}))

flush_pending_input_events_keeps_queue(s) ==
  LET send(acc, ev) == dispatch_event_to_all(acc, ev, "flush_pending_input_events")
  IN FoldLeft(send, s, s.pending_input_events)

flush_pending_input_events_reversed(s) ==
  LET events == [k \in 1..Len(s.pending_input_events) |->
                   s.pending_input_events[Len(s.pending_input_events) + 1 - k]]
      s1 == [s EXCEPT !.pending_input_events = <<>>]
      send(acc, ev) == dispatch_event_to_all(acc, ev, "flush_pending_input_events")
  IN FoldLeft(send, s1, events)

flush_pending_input_events(s) ==
  LET events == s.pending_input_events
      s1 == [s EXCEPT !.pending_input_events = <<>>]
      send(acc, ev) == dispatch_event_to_all(acc, ev, "flush_pending_input_events")
  IN FoldLeft(send, s1, events)

\* key_code is the numeric key code, pressed the key state.
queue_keyboard_event(s, key_code, pressed) ==
  LET event == IF pressed THEN Ev("KeyPressed", 0, key_code, 0, "")
               ELSE Ev("KeyReleased", 0, key_code, 0, "")
  IN [s EXCEPT !.pending_input_events = Append(@, event)]

\* A MouseButton: its variant and, for Other, the id it carries (a u16).
MouseButton(kind, id) == [kind |-> kind, id |-> id]

queue_mouse_event(s, pressed, button) ==
  LET button_id == CASE button.kind = "Left" -> 0
                     [] button.kind = "Right" -> 1
                     [] button.kind = "Middle" -> 2
                     [] button.kind = "Back" -> 3
                     [] button.kind = "Forward" -> 4
                     [] button.kind = "Other" -> button.id + 5
      event == IF pressed THEN Ev("MouseButtonPressed", 0, button_id, 0, "")
               ELSE Ev("MouseButtonReleased", 0, button_id, 0, "")
  IN [s EXCEPT !.pending_input_events = Append(@, event)]

(***************************************************************************)
(* Path sanitizer.  A path is the sequence of its components: "/" is the   *)
(* root, ".." the parent directory, "C:" a platform prefix, anything else  *)
(* a normal component.  The file system below the working directory is     *)
(* fixed: Canonical maps the joined paths that exist to what               *)
(* std::fs::canonicalize resolves them to (symbolic links followed).       *)
(***************************************************************************)
PluginsBasePath == <<"plugins">>

\* link_in, link_out and link_sib are symbolic links: to logo.png, to
\* /etc/passwd and to a file of the sibling directory /app/plugins2.
Canonical ==
  (<<"plugins">> :> <<"/", "app", "plugins">>)
  @@ (<<"plugins", "logo.png">> :> <<"/", "app", "plugins", "logo.png">>)
  @@ (<<"plugins", "link_in">> :> <<"/", "app", "plugins", "logo.png">>)
  @@ (<<"plugins", "link_out">> :> <<"/", "etc", "passwd">>)
  @@ (<<"plugins", "link_sib">> :> <<"/", "app", "plugins2", "logo.png">>)
  @@ (<<"plugins", "sub">> :> <<"/", "app", "plugins", "sub">>)
  @@ (<<"plugins", "sub", "logo.png">> :> <<"/", "app", "plugins", "sub", "logo.png">>)
  @@ (<<"plugins", "sub", "..">> :> <<"/", "app", "plugins">>)
  @@ (<<"plugins", "sub", "..", "logo.png">> :> <<"/", "app", "plugins", "logo.png">>)
  @@ (<<"plugins", "..">> :> <<"/", "app">>)
  @@ (<<"plugins", "..", "plugins">> :> <<"/", "app", "plugins">>)

\* PluginRuntime::new: canonicalize(plugins_base_path), or the path itself.
CanonicalBasePath ==
  IF PluginsBasePath \in DOMAIN Canonical
  THEN Canonical[PluginsBasePath]
  ELSE PluginsBasePath

\* Path::is_absolute: a root, on Unix; a prefix followed by a root, on
\* Windows.
IsAbsolute(path) ==
  \/ Len(path) > 0 /\ path[1] = "/"
  \/ Len(path) > 1 /\ path[1] = "C:" /\ path[2] = "/"

StartsWith(path, prefix) ==
  Len(prefix) <= Len(path) /\ SubSeq(path, 1, Len(prefix)) = prefix

sanitize_path_without_prefix_check(path) ==
  IF IsAbsolute(path) THEN <<>>
  ELSE IF \E i \in 1..Len(path) : path[i] \in {"..", "C:", "/"} THEN <<>>
  ELSE LET full_path == PluginsBasePath \o path
       IN IF full_path \notin DOMAIN Canonical THEN <<>>
          ELSE Canonical[full_path]

\* The canonical path, or <<>> for a rejected path.
sanitize_path(path) ==
  IF IsAbsolute(path) THEN <<>>
  ELSE IF \E i \in 1..Len(path) : path[i] \in {"..", "C:", "/"} THEN <<>>
  ELSE LET full_path == PluginsBasePath \o path
       IN IF full_path \notin DOMAIN Canonical THEN <<>>
          ELSE IF ~StartsWith(Canonical[full_path], CanonicalBasePath) THEN <<>>
          ELSE Canonical[full_path]

(***************************************************************************)
(* Async asset pipeline.  A worker is a spawned thread that has not yet    *)
(* posted; an envelope is a posted AsyncResult.                            *)
(***************************************************************************)
Job(kind, plugin_id, request_id, safe_path, texture_name, texture_id, position) ==
  [kind |-> kind, plugin_id |-> plugin_id, request_id |-> request_id,
   safe_path |-> safe_path, texture_name |-> texture_name,
   texture_id |-> texture_id, position |-> position]

\* What a decoded glTF file holds besides its prefabs: the names of its
\* meshes and of its textures, in the order in which the maps yield them.
Gltf(meshes, textures) == [meshes |-> meshes, textures |-> textures]

\* result: "ok", "err" or, for a prefab, "empty" (decoded, no prefab in it);
\* gltf: the contents of the file of a prefab that was decoded.
Envelope(job, result, gltf) ==
  [kind |-> job.kind, plugin_id |-> job.plugin_id, request_id |-> job.request_id,
   texture_name |-> job.texture_name, texture_id |-> job.texture_id,
   position |-> job.position, result |-> result, gltf |-> gltf]

\* The meshes of a decoded glTF file go into the mesh cache, and one
\* LoadTexture command is queued for each of its textures.
gltf_assets(w, gltf) ==
  LET load(acc, texture_name) == QueueCommand(acc, WorldCmd("LoadTexture", 0, texture_name))
  IN FoldLeft(load, [w EXCEPT !.mesh_cache = @ \cup Range(gltf.meshes)], gltf.textures)

process_async_result_inserts_on_failure(s, r) ==
  LET fn == "process_async_results"
  IN CASE r.kind = "File" ->
            LET event == IF r.result = "ok"
                         THEN Ev("FileLoaded", r.request_id, 0, 0, "")
                         ELSE Ev("FileError", r.request_id, 0, 0, "io error")
            IN dispatch_event_to_plugin(s, r.plugin_id, event, fn)
       [] r.kind = "Texture" ->
            IF r.result = "ok"
            THEN LET s1 == [s EXCEPT
                              !.world = QueueCommand(@, WorldCmd("LoadTexture", 0, r.texture_name)),
                              !.texture_id_to_name = MapPut(@, r.texture_id, r.texture_name)]
                 IN dispatch_event_to_plugin(
                      s1, r.plugin_id, Ev("TextureLoaded", r.request_id, r.texture_id, 0, ""), fn)
            ELSE dispatch_event_to_plugin(
                   [s EXCEPT !.texture_id_to_name = MapPut(@, r.texture_id, r.texture_name)],
                   r.plugin_id, Ev("AssetError", r.request_id, 0, 0, "load error"), fn)
       [] r.kind = "Prefab" ->
            IF r.result = "ok"
            THEN LET s0 == [s EXCEPT !.world = gltf_assets(@, r.gltf)]
                     entity == s0.world.next_entity
                     s1 == [s0 EXCEPT !.world = SpawnPrefabAt(@, r.position)]
                     reg == register_entity(s1, entity)
                 IN dispatch_event_to_plugin(
                      reg.s, r.plugin_id, Ev("PrefabLoaded", r.request_id, reg.id, 0, ""), fn)
            ELSE IF r.result = "empty"
            THEN dispatch_event_to_plugin(
                   [s EXCEPT !.world = gltf_assets(@, r.gltf)], r.plugin_id,
                   Ev("AssetError", r.request_id, 0, 0, "No prefabs found in glTF file"), fn)
            ELSE dispatch_event_to_plugin(
                   s, r.plugin_id, Ev("AssetError", r.request_id, 0, 0, "load error"), fn)

process_async_result_registers_without_prefab(s, r) ==
  LET fn == "process_async_results"
  IN CASE r.kind = "File" ->
            LET event == IF r.result = "ok"
                         THEN Ev("FileLoaded", r.request_id, 0, 0, "")
                         ELSE Ev("FileError", r.request_id, 0, 0, "io error")
            IN dispatch_event_to_plugin(s, r.plugin_id, event, fn)
       [] r.kind = "Texture" ->
            IF r.result = "ok"
            THEN LET s1 == [s EXCEPT
                              !.world = QueueCommand(@, WorldCmd("LoadTexture", 0, r.texture_name)),
                              !.texture_id_to_name = MapPut(@, r.texture_id, r.texture_name)]
                 IN dispatch_event_to_plugin(
                      s1, r.plugin_id, Ev("TextureLoaded", r.request_id, r.texture_id, 0, ""), fn)
            ELSE dispatch_event_to_plugin(
                   s, r.plugin_id, Ev("AssetError", r.request_id, 0, 0, "load error"), fn)
       [] r.kind = "Prefab" ->
            IF r.result = "ok"
            THEN LET s0 == [s EXCEPT !.world = gltf_assets(@, r.gltf)]
                     entity == s0.world.next_entity
                     s1 == [s0 EXCEPT !.world = SpawnPrefabAt(@, r.position)]
                     reg == register_entity(s1, entity)
                 IN dispatch_event_to_plugin(
                      reg.s, r.plugin_id, Ev("PrefabLoaded", r.request_id, reg.id, 0, ""), fn)
            ELSE IF r.result = "empty"
            THEN dispatch_event_to_plugin(
                   register_entity([s EXCEPT !.world = SpawnPrefabAt(gltf_assets(@, r.gltf),
                                                                     r.position)],
                                   s.world.next_entity).s,
                   r.plugin_id,
                   Ev("AssetError", r.request_id, 0, 0, "No prefabs found in glTF file"), fn)
            ELSE dispatch_event_to_plugin(
                   s, r.plugin_id, Ev("AssetError", r.request_id, 0, 0, "load error"), fn)

process_async_result(s, r) ==
  LET fn == "process_async_results"
  IN CASE r.kind = "File" ->
            LET event == IF r.result = "ok"
                         THEN Ev("FileLoaded", r.request_id, 0, 0, "")
                         ELSE Ev("FileError", r.request_id, 0, 0, "io error")
            IN dispatch_event_to_plugin(s, r.plugin_id, event, fn)
       [] r.kind = "Texture" ->
            IF r.result = "ok"
            THEN LET s1 == [s EXCEPT
                              !.world = QueueCommand(@, WorldCmd("LoadTexture", 0, r.texture_name)),
                              !.texture_id_to_name = MapPut(@, r.texture_id, r.texture_name)]
                 IN dispatch_event_to_plugin(
                      s1, r.plugin_id, Ev("TextureLoaded", r.request_id, r.texture_id, 0, ""), fn)
            ELSE dispatch_event_to_plugin(
                   s, r.plugin_id, Ev("AssetError", r.request_id, 0, 0, "load error"), fn)
       [] r.kind = "Prefab" ->
            IF r.result = "ok"
            THEN LET s0 == [s EXCEPT !.world = gltf_assets(@, r.gltf)]
                     entity == s0.world.next_entity
                     s1 == [s0 EXCEPT !.world = SpawnPrefabAt(@, r.position)]
                     reg == register_entity(s1, entity)
                 IN dispatch_event_to_plugin(
                      reg.s, r.plugin_id, Ev("PrefabLoaded", r.request_id, reg.id, 0, ""), fn)
            ELSE IF r.result = "empty"
            THEN dispatch_event_to_plugin(
                   [s EXCEPT !.world = gltf_assets(@, r.gltf)], r.plugin_id,
                   Ev("AssetError", r.request_id, 0, 0, "No prefabs found in glTF file"), fn)
            ELSE dispatch_event_to_plugin(
                   s, r.plugin_id, Ev("AssetError", r.request_id, 0, 0, "load error"), fn)

process_async_results_drops_rest(s) ==
  LET s1 == Log([s EXCEPT !.async_channel = <<>>],
                T("process_async_results", "drain", 0, NoEv, NoCmd, "", {}))
  IN IF s.async_channel = <<>> THEN s1
     ELSE process_async_result(s1, Head(s.async_channel))

\* while let Ok(result) = try_recv(): every result that waits is taken, in
\* the order of the channel.
process_async_results_in_request_order(s) ==
  FoldLeft(process_async_result,
           Log([s EXCEPT !.async_channel = <<>>],
               T("process_async_results", "drain", 0, NoEv, NoCmd, "", {})),
           SortSeq(s.async_channel, LAMBDA a, b : a.request_id < b.request_id))

process_async_results(s) ==
  FoldLeft(process_async_result,
           Log([s EXCEPT !.async_channel = <<>>],
               T("process_async_results", "drain", 0, NoEv, NoCmd, "", {})),
           s.async_channel)

(***************************************************************************)
(* Command handling.                                                       *)
(***************************************************************************)
Warn_replies_to_material(s, plugin_id, cmd, what) ==
  LET s1 == Log(s, T("process_commands", "warn", plugin_id, NoEv, cmd, what, {}))
  IN IF cmd.type = "SetEntityMaterial"
     THEN send_event_to_plugin(s1, get_plugin_by_id(s1, plugin_id),
                               Ev("AssetError", 0, 0, 0, what), "process_commands")
     ELSE s1

Warn(s, plugin_id, cmd, what) ==
  Log(s, T("process_commands", "warn", plugin_id, NoEv, cmd, what, {}))

\* Set{Position,Scale,Rotation}: field is the component of the transform.
SetTransform(s, plugin_id, c, field) ==
  LET entity == get_entity(s, c.entity_id)
  IN IF entity # None
     THEN [s EXCEPT
             !.world.local =
               IF Has(@, entity)
               THEN [@ EXCEPT ![entity] =
                       CASE field = "translation" -> [@ EXCEPT !.translation = c.x]
                         [] field = "scale" -> [@ EXCEPT !.scale = c.x]
                         [] field = "rotation" -> [@ EXCEPT !.rotation = c.x]]
               ELSE @,
             !.world.dirty = @ \cup {entity}]
     ELSE Warn(s, plugin_id, c, "invalid entity")

GetTransform_silent_without_transform(s, plugin_id, c, field, reply) ==
  LET fn == "process_commands"
      entity == get_entity(s, c.entity_id)
      not_found == Ev("EntityNotFound", c.request_id, c.entity_id, 0, "")
  IN IF entity # None
     THEN IF Has(s.world.local, entity)
          THEN LET tr == s.world.local[entity]
                   v == CASE field = "translation" -> tr.translation
                          [] field = "scale" -> tr.scale
                          [] field = "rotation" -> tr.rotation
               IN dispatch_event_to_plugin(
                    s, plugin_id, Ev(reply, c.request_id, c.entity_id, v, ""), fn)
          ELSE s
     ELSE dispatch_event_to_plugin(s, plugin_id, not_found, fn)

\* Get{Position,Scale,Rotation}: reply is the type of the component event.
GetTransform(s, plugin_id, c, field, reply) ==
  LET fn == "process_commands"
      entity == get_entity(s, c.entity_id)
      not_found == Ev("EntityNotFound", c.request_id, c.entity_id, 0, "")
  IN IF entity # None
     THEN IF Has(s.world.local, entity)
          THEN LET tr == s.world.local[entity]
                   v == CASE field = "translation" -> tr.translation
                          [] field = "scale" -> tr.scale
                          [] field = "rotation" -> tr.rotation
               IN dispatch_event_to_plugin(
                    s, plugin_id, Ev(reply, c.request_id, c.entity_id, v, ""), fn)
          ELSE dispatch_event_to_plugin(s, plugin_id, not_found, fn)
     ELSE dispatch_event_to_plugin(s, plugin_id, not_found, fn)

SpawnWorker_with_joined_path(s, plugin_id, c, job) ==
  Log([s EXCEPT !.workers = Append(@, [job EXCEPT !.safe_path = PluginsBasePath \o c.path])],
      T("process_commands", "spawn_worker", plugin_id, NoEv, c, "", {}))

SpawnWorker(s, plugin_id, c, job) ==
  Log([s EXCEPT !.workers = Append(@, job)],
      T("process_commands", "spawn_worker", plugin_id, NoEv, c, "", {}))

\* The command types that carry a request id.
Requests ==
  {"SpawnPrimitive", "GetEntityPosition", "GetEntityScale", "GetEntityRotation",
   "ReadFile", "LoadTexture", "LoadPrefab"}

\* Writes the history only: the request a processed command makes.
Asked(s, plugin_id, c) ==
  IF c.type \in Requests
  THEN [s EXCEPT !.hist.asked = @ \cup {<<plugin_id, c.request_id, c.type>>}]
  ELSE s

\* The ids that resolve, at this point, to an entity with a local transform.
Readable(s) ==
  {id \in DOMAIN s.entity_map : Has(s.world.local, s.entity_map[id])}

process_command(s0, pc) ==
  LET fn == "process_commands"
      plugin_id == pc[1]
      c == pc[2]
      s == Asked(Log(s0, T(fn, "process", plugin_id, NoEv, c, "", Readable(s0))),
                 plugin_id, c)
  IN CASE c.type = "Log" -> s
       [] c.type = "SpawnPrimitive" ->
            LET entity == s.world.next_entity
                s1 == [s EXCEPT !.world = SpawnPrimitiveAt(@, c.x)]
                reg == register_entity(s1, entity)
            IN dispatch_event_to_plugin(
                 reg.s, plugin_id, Ev("EntitySpawned", c.request_id, reg.id, 0, ""), fn)
       [] c.type = "DespawnEntity" ->
            LET entity == get_entity(s, c.entity_id)
            IN IF entity # None
               THEN unregister_entity(
                      [s EXCEPT !.world = QueueCommand(@, WorldCmd("DespawnRecursive", entity, <<>>))],
                      c.entity_id)
               ELSE Warn(s, plugin_id, c, "invalid entity")
       [] c.type = "SetEntityPosition" -> SetTransform(s, plugin_id, c, "translation")
       [] c.type = "SetEntityScale" -> SetTransform(s, plugin_id, c, "scale")
       [] c.type = "SetEntityRotation" -> SetTransform(s, plugin_id, c, "rotation")
       [] c.type = "GetEntityPosition" ->
            GetTransform(s, plugin_id, c, "translation", "EntityPosition")
       [] c.type = "GetEntityScale" -> GetTransform(s, plugin_id, c, "scale", "EntityScale")
       [] c.type = "GetEntityRotation" ->
            GetTransform(s, plugin_id, c, "rotation", "EntityRotation")
       [] c.type = "ReadFile" ->
            LET safe_path == sanitize_path(c.path)
            IN IF safe_path # <<>>
               THEN SpawnWorker(s, plugin_id, c,
                                Job("File", plugin_id, c.request_id, safe_path, <<>>, 0, 0))
               ELSE dispatch_event_to_plugin(
                      Warn(s, plugin_id, c, "invalid path"), plugin_id,
                      Ev("FileError", c.request_id, 0, 0, "Invalid path: access denied"), fn)
       [] c.type = "LoadTexture" ->
            LET safe_path == sanitize_path(c.path)
            IN IF safe_path # <<>>
               THEN LET g == generate_texture_id(s)
                    IN SpawnWorker(g.s, plugin_id, c,
                                   Job("Texture", plugin_id, c.request_id, safe_path,
                                       c.path, g.id, 0))
               ELSE dispatch_event_to_plugin(
                      Warn(s, plugin_id, c, "invalid path"), plugin_id,
                      Ev("AssetError", c.request_id, 0, 0, "Invalid path: access denied"), fn)
       [] c.type = "LoadPrefab" ->
            LET safe_path == sanitize_path(c.path)
            IN IF safe_path # <<>>
               THEN SpawnWorker(s, plugin_id, c,
                                Job("Prefab", plugin_id, c.request_id, safe_path, <<>>, 0, c.x))
               ELSE dispatch_event_to_plugin(
                      Warn(s, plugin_id, c, "invalid path"), plugin_id,
                      Ev("AssetError", c.request_id, 0, 0, "Invalid path: access denied"), fn)
       [] c.type = "SetEntityMaterial" ->
            LET entity == get_entity(s, c.entity_id)
            IN IF entity # None
               THEN IF Has(s.texture_id_to_name, c.x)
                    THEN IF Has(s.world.material, entity)
                         THEN [s EXCEPT !.world.material[entity] = s.texture_id_to_name[c.x]]
                         ELSE Warn(s, plugin_id, c, "no material")
                    ELSE Warn(s, plugin_id, c, "invalid texture")
               ELSE Warn(s, plugin_id, c, "invalid entity")

process_commands_stops_at_warning(s, commands) ==
  LET step(acc, pc) ==
        IF \E k \in 1..Len(acc.trace) : acc.trace[k].k = "warn"
        THEN acc
        ELSE process_command(acc, pc)
  IN FoldLeft(step, s, commands)

process_commands(s, commands) == FoldLeft(process_command, s, commands)

(***************************************************************************)
(* Lifecycle: on_init, on_frame and the frame.                             *)
(***************************************************************************)
DrainPending_copies(s, i) ==
  LET p == s.plugins[i]
  IN [s EXCEPT !.collected =
                 @ \o [k \in 1..Len(p.pending_commands) |-> <<p.id, p.pending_commands[k]>>]]

\* Drains the pending commands of plugin i into s.collected, tagged with
\* the plugin's id.
DrainPending(s, i) ==
  LET p == s.plugins[i]
  IN [s EXCEPT !.collected =
                 @ \o [k \in 1..Len(p.pending_commands) |-> <<p.id, p.pending_commands[k]>>],
               !.plugins[i].pending_commands = <<>>]

collect_init_commands_stops_at_trap(s) ==
  LET step(acc, i) ==
        LET p == acc.plugins[i]
            b == acc.guest[p.id]
        IN IF p.on_init
              /\ ~\E k \in 1..Len(acc.trace) :
                     acc.trace[k].k = "on_init" /\ acc.trace[k].res = "trap"
           THEN DrainPending(
                  Log(GuestSends(acc, i, b.init),
                      T("collect_init_commands", "on_init", p.id, NoEv, NoCmd,
                        IF b.trap THEN "trap" ELSE "ok", {})),
                  i)
           ELSE acc
  IN FoldLeft(step, [s EXCEPT !.collected = <<>>], [i \in 1..Len(s.plugins) |-> i])

collect_init_commands(s) ==
  LET step(acc, i) ==
        LET p == acc.plugins[i]
            b == acc.guest[p.id]
        IN IF p.on_init
           THEN DrainPending(
                  Log(GuestSends(acc, i, b.init),
                      T("collect_init_commands", "on_init", p.id, NoEv, NoCmd,
                        IF b.trap THEN "trap" ELSE "ok", {})),
                  i)
           ELSE acc
  IN FoldLeft(step, [s EXCEPT !.collected = <<>>], [i \in 1..Len(s.plugins) |-> i])

\* The commands a collect step gathered are processed in one pass.
ProcessCollected(s) == process_commands(s, s.collected)

call_on_init(s) == ProcessCollected(collect_init_commands(s))

collect_frame_commands_reversed(s) ==
  LET step(acc, i) ==
        LET p == acc.plugins[i]
            b == acc.guest[p.id]
        IN IF p.on_frame
           THEN DrainPending(
                  Log(GuestSends(acc, i, b.frame),
                      T("collect_frame_commands", "on_frame", p.id, NoEv, NoCmd,
                        IF b.trap THEN "trap" ELSE "ok", {})),
                  i)
           ELSE acc
  IN FoldLeft(step, [s EXCEPT !.collected = <<>>],
              [i \in 1..Len(s.plugins) |-> Len(s.plugins) + 1 - i])

collect_frame_commands_stops_at_trap(s) ==
  LET step(acc, i) ==
        LET p == acc.plugins[i]
            b == acc.guest[p.id]
        IN IF p.on_frame
              /\ ~\E k \in 1..Len(acc.trace) :
                     acc.trace[k].k = "on_frame" /\ acc.trace[k].res = "trap"
           THEN DrainPending(
                  Log(GuestSends(acc, i, b.frame),
                      T("collect_frame_commands", "on_frame", p.id, NoEv, NoCmd,
                        IF b.trap THEN "trap" ELSE "ok", {})),
                  i)
           ELSE acc
  IN FoldLeft(step, [s EXCEPT !.collected = <<>>], [i \in 1..Len(s.plugins) |-> i])

collect_frame_commands_discards_on_trap(s) ==
  LET step(acc, i) ==
        LET p == acc.plugins[i]
            b == acc.guest[p.id]
            called == Log(GuestSends(acc, i, b.frame),
                          T("collect_frame_commands", "on_frame", p.id, NoEv, NoCmd,
                            IF b.trap THEN "trap" ELSE "ok", {}))
        IN IF p.on_frame
           THEN IF b.trap
                THEN [called EXCEPT !.plugins[i].pending_commands = <<>>]
                ELSE DrainPending(called, i)
           ELSE acc
  IN FoldLeft(step, [s EXCEPT !.collected = <<>>], [i \in 1..Len(s.plugins) |-> i])

collect_frame_commands(s) ==
  LET step(acc, i) ==
        LET p == acc.plugins[i]
            b == acc.guest[p.id]
        IN IF p.on_frame
           THEN DrainPending(
                  Log(GuestSends(acc, i, b.frame),
                      T("collect_frame_commands", "on_frame", p.id, NoEv, NoCmd,
                        IF b.trap THEN "trap" ELSE "ok", {})),
                  i)
           ELSE acc
  IN FoldLeft(step, [s EXCEPT !.collected = <<>>], [i \in 1..Len(s.plugins) |-> i])

FrameStart(s) ==
  dispatch_event_to_all(s, Ev("FrameStart", 0, s.world.frame_counter, 0, ""), "run_frame")

MouseMoved(s) ==
  LET new_pos == s.world.mouse
  IN IF new_pos # s.last_mouse_position
     THEN dispatch_event_to_all([s EXCEPT !.last_mouse_position = new_pos],
                                Ev("MouseMoved", 0, 0, new_pos, ""), "run_frame")
     ELSE s

run_frame_mouse_first(s) ==
  LET s1 == process_async_results(s)
      s2 == cleanup_stale_entities(s1)
      s3 == flush_pending_input_events(s2)
      s4 == MouseMoved(s3)
      s5 == FrameStart(s4)
      s6 == collect_frame_commands(s5)
  IN ProcessCollected(s6)

run_frame_on_frame_first(s) ==
  LET s0 == collect_frame_commands(s)
      s1 == process_async_results(s0)
      s2 == cleanup_stale_entities(s1)
      s3 == flush_pending_input_events(s2)
      s4 == FrameStart(s3)
      s5 == MouseMoved(s4)
  IN ProcessCollected(s5)

run_frame(s) ==
  LET s1 == process_async_results(s)
      s2 == cleanup_stale_entities(s1)
      s3 == flush_pending_input_events(s2)
      s4 == FrameStart(s3)
      s5 == MouseMoved(s4)
      s6 == collect_frame_commands(s5)
  IN ProcessCollected(s6)

(***************************************************************************)
(* The host game layer (main.rs).  The application decodes the custom      *)
(* commands the runtime drained and processes them against its GameState;  *)
(* the events it derives go back over the custom channel, to one plugin or *)
(* to all.  A string is the sequence of its characters.  A vector of three  *)
(* floats is one integer that packs its components, counted in tenths; a   *)
(* colour is the tuple of its four components, counted in hundredths.      *)
(***************************************************************************)
Vec3(x, y, z) == (x * 1000 + y) * 1000 + z

GameCmd(type, kind, request_id, id, amount, name) ==
  [type |-> type, kind |-> kind, request_id |-> request_id, id |-> id,
   amount |-> amount, name |-> name, position |-> Vec3(0, 0, 0)]

SpawnEnemy(enemy_type, position, request_id) ==
  [GameCmd("SpawnEnemy", enemy_type, request_id, 0, 0, <<>>) EXCEPT !.position = position]

DespawnEnemy(enemy_id) == GameCmd("DespawnEnemy", "", 0, enemy_id, 0, <<>>)

DamageEnemy(enemy_id, damage) == GameCmd("DamageEnemy", "", 0, enemy_id, damage, <<>>)

SpawnItem(item_type, position, request_id) ==
  [GameCmd("SpawnItem", item_type, request_id, 0, 0, <<>>) EXCEPT !.position = position]

GivePlayerItem(item_type) == GameCmd("GivePlayerItem", item_type, 0, 0, 0, <<>>)

SetPlayerHealth(health) == GameCmd("SetPlayerHealth", "", 0, 0, health, <<>>)

SetPlayerScore(score) == GameCmd("SetPlayerScore", "", 0, 0, score, <<>>)

TriggerGameEvent(event_name) == GameCmd("TriggerGameEvent", "", 0, 0, 0, event_name)

\* value: remaining_health, health, score or wave_number.
GameEv(type, request_id, id, kind, value, max_health, name) ==
  [type |-> type, request_id |-> request_id, id |-> id, kind |-> kind,
   value |-> value, max_health |-> max_health, name |-> name]

EnemyData(entity, enemy_type, health) ==
  [entity |-> entity, enemy_type |-> enemy_type, health |-> health]

get_enemy_max_health(enemy_type) ==
  CASE enemy_type = "Slime" -> 20
    [] enemy_type = "Skeleton" -> 50
    [] enemy_type = "Dragon" -> 200

\* A sphere, a cylinder or a cube at the position, then the scale of the
\* enemy type in its local transform and the colour of the type in the
\* material the entity refers to.
spawn_enemy_entity(w, enemy_type, position) ==
  LET entity == w.next_entity
      scale == CASE enemy_type = "Slime" -> Vec3(5, 5, 5)
                 [] enemy_type = "Skeleton" -> Vec3(3, 10, 3)
                 [] enemy_type = "Dragon" -> Vec3(20, 20, 30)
      base_color == CASE enemy_type = "Slime" -> <<20, 80, 20, 100>>
                      [] enemy_type = "Skeleton" -> <<90, 90, 85, 100>>
                      [] enemy_type = "Dragon" -> <<80, 20, 10, 100>>
  IN [SpawnPrimitiveAt(w, position) EXCEPT
        !.local[entity].scale = scale,
        !.base_color = MapPut(@, entity, base_color)]

spawn_item_entity(w, item_type, position) ==
  LET entity == w.next_entity
      scale == CASE item_type = "HealthPotion" -> Vec3(3, 3, 3)
                 [] item_type = "ManaPotion" -> Vec3(3, 3, 3)
                 [] item_type = "Sword" -> Vec3(1, 8, 1)
                 [] item_type = "Shield" -> Vec3(6, 6, 1)
      base_color == CASE item_type = "HealthPotion" -> <<100, 20, 20, 100>>
                      [] item_type = "ManaPotion" -> <<20, 20, 100, 100>>
                      [] item_type = "Sword" -> <<70, 70, 80, 100>>
                      [] item_type = "Shield" -> <<60, 40, 20, 100>>
  IN [SpawnPrimitiveAt(w, position) EXCEPT
        !.local[entity].scale = scale,
        !.base_color = MapPut(@, entity, base_color)]

saturating_sub_distance(a, b) == IF b > a THEN b - a ELSE a - b

\* u32::saturating_sub.
saturating_sub(a, b) == IF b > a THEN 0 ELSE a - b

dispatch_game_event_to_plugin_unfiltered(s, plugin_id, event) ==
  Log(s, T("dispatch_game_event_to_plugin", "broadcast", 0, event, NoCmd, "",
           {s.plugins[i].id : i \in 1..Len(s.plugins)}))

\* The event is serialized and handed to dispatch_custom_event_to_plugin; the
\* model records the call and its addressee (the Ok branch of to_bytes: the
\* serializer is a library outside this repository).
dispatch_game_event_to_plugin(s, plugin_id, event) ==
  Log(s, T("dispatch_game_event_to_plugin", "unicast", plugin_id, event, NoCmd, "",
           {plugin_id}))

\* The event is serialized and handed to dispatch_custom_event_to_all_unfiltered,
\* which sends it to every loaded plugin.  The history keeps the enemy ids
\* of the EnemyDied events, in order.
dispatch_game_event_to_all(s, event) ==
  LET s1 == IF event.type = "EnemyDied"
            THEN [s EXCEPT !.hist.died = Append(@, event.id)]
            ELSE s
  IN Log(s1, T("dispatch_game_event_to_all", "broadcast", 0, event, NoCmd, "",
               {s.plugins[i].id : i \in 1..Len(s.plugins)}))

Some(v) == [some |-> TRUE, v |-> v]

NoStr == [some |-> FALSE, v |-> <<>>]

\* str::strip_prefix and str::strip_suffix.
strip_prefix(str, prefix) ==
  IF Len(str) >= Len(prefix) /\ SubSeq(str, 1, Len(prefix)) = prefix
  THEN Some(SubSeq(str, Len(prefix) + 1, Len(str)))
  ELSE NoStr

strip_suffix(str, suffix) ==
  IF Len(str) >= Len(suffix) /\ SubSeq(str, Len(str) - Len(suffix) + 1, Len(str)) = suffix
  THEN Some(SubSeq(str, 1, Len(str) - Len(suffix)))
  ELSE NoStr

Digit(c) ==
  CASE c = "0" -> 0 [] c = "1" -> 1 [] c = "2" -> 2 [] c = "3" -> 3 [] c = "4" -> 4
    [] c = "5" -> 5 [] c = "6" -> 6 [] c = "7" -> 7 [] c = "8" -> 8 [] c = "9" -> 9
    [] OTHER -> -1

\* str::parse::<u32>: the empty string and a lone sign are errors, a
\* leading "+" is skipped, every other character must be a decimal digit,
\* and the value must not exceed u32::MAX = 4294967295.
parse_u32(str) ==
  LET digits == IF str # <<>> /\ str[1] = "+" THEN Tail(str) ELSE str
      step(acc, c) ==
        IF ~acc.some \/ Digit(c) < 0 THEN NoStr
        ELSE IF acc.v > 429496729 \/ (acc.v = 429496729 /\ Digit(c) > 5) THEN NoStr
        ELSE Some(acc.v * 10 + Digit(c))
  IN IF str = <<>> \/ str = <<"+">> \/ str = <<"-">> THEN NoStr
     ELSE FoldLeft(step, Some(0), digits)

WavePrefix == <<"w", "a", "v", "e", "_">>

StartSuffix == <<"_", "s", "t", "a", "r", "t">>

CompleteSuffix == <<"_", "c", "o", "m", "p", "l", "e", "t", "e">>

\* The wave string of the name, if it is wave_<s><suffix>.
WaveStr(event_name, suffix) ==
  LET rest == strip_prefix(event_name, WavePrefix)
  IN IF rest.some THEN strip_suffix(rest.v, suffix) ELSE NoStr

trigger_game_event_reports_unparsed(s, event_name) ==
  LET start == WaveStr(event_name, StartSuffix)
      complete == WaveStr(event_name, CompleteSuffix)
      triggered == GameEv("GameEventTriggered", 0, 0, "", 0, 0, event_name)
  IN IF start.some
     THEN LET wave_number == parse_u32(start.v)
          IN IF wave_number.some
             THEN dispatch_game_event_to_all(
                    s, GameEv("WaveStarted", 0, 0, "", wave_number.v, 0, <<>>))
             ELSE dispatch_game_event_to_all(s, triggered)
     ELSE IF complete.some
     THEN LET wave_number == parse_u32(complete.v)
          IN IF wave_number.some
             THEN dispatch_game_event_to_all(
                    s, GameEv("WaveCompleted", 0, 0, "", wave_number.v, 0, <<>>))
             ELSE dispatch_game_event_to_all(s, triggered)
     ELSE dispatch_game_event_to_all(s, triggered)

\* The TriggerGameEvent arm of process_game_commands.
trigger_game_event(s, event_name) ==
  LET start == WaveStr(event_name, StartSuffix)
      complete == WaveStr(event_name, CompleteSuffix)
  IN IF start.some
     THEN LET wave_number == parse_u32(start.v)
          IN IF wave_number.some
             THEN dispatch_game_event_to_all(
                    s, GameEv("WaveStarted", 0, 0, "", wave_number.v, 0, <<>>))
             ELSE s
     ELSE IF complete.some
     THEN LET wave_number == parse_u32(complete.v)
          IN IF wave_number.some
             THEN dispatch_game_event_to_all(
                    s, GameEv("WaveCompleted", 0, 0, "", wave_number.v, 0, <<>>))
             ELSE s
     ELSE dispatch_game_event_to_all(
            s, GameEv("GameEventTriggered", 0, 0, "", 0, 0, event_name))

\* One iteration of the loop of process_game_commands.  The entry of the
\* command holds the enemy ids that are known when it is processed; the
\* history keeps the enemy ids allocated, in order.
process_game_command(s0, pc) ==
  LET plugin_id == pc[1]
      c == pc[2]
      s == Log(s0, T("process_game_commands", "game", plugin_id, NoEv, c, "",
                     DOMAIN s0.game_state.enemies))
  IN CASE c.type = "SpawnEnemy" ->
            LET entity == s.world.next_entity
                enemy_id == s.game_state.next_enemy_id
                max_health == get_enemy_max_health(c.kind)
                s1 == [s EXCEPT
                         !.world = spawn_enemy_entity(@, c.kind, c.position),
                         !.game_state.next_enemy_id = @ + 1,
                         !.game_state.enemies =
                           MapPut(@, enemy_id, EnemyData(entity, c.kind, max_health)),
                         !.hist.enemy_ids = Append(@, enemy_id)]
            IN dispatch_game_event_to_plugin(
                 s1, plugin_id,
                 GameEv("EnemySpawned", c.request_id, enemy_id, c.kind, 0, 0, <<>>))
       [] c.type = "DespawnEnemy" ->
            IF Has(s.game_state.enemies, c.id)
            THEN LET enemy_data == s.game_state.enemies[c.id]
                 IN dispatch_game_event_to_all(
                      [s EXCEPT
                         !.game_state.enemies = MapRemove(@, c.id),
                         !.world = QueueCommand(@, WorldCmd("DespawnRecursive",
                                                            enemy_data.entity, <<>>))],
                      GameEv("EnemyDied", 0, c.id, enemy_data.enemy_type, 0, 0, <<>>))
            ELSE s
       [] c.type = "DamageEnemy" ->
            IF Has(s.game_state.enemies, c.id)
            THEN LET remaining_health ==
                       saturating_sub(s.game_state.enemies[c.id].health, c.amount)
                 IN dispatch_game_event_to_all(
                      [s EXCEPT !.game_state.enemies[c.id].health = remaining_health],
                      GameEv("EnemyDamaged", 0, c.id, "", remaining_health, 0, <<>>))
            ELSE s
       [] c.type = "SpawnItem" ->
            LET item_id == s.game_state.next_item_id
                s1 == [s EXCEPT !.world = spawn_item_entity(@, c.kind, c.position),
                                !.game_state.next_item_id = @ + 1,
                                !.game_state.items = @ \cup {item_id}]
            IN dispatch_game_event_to_plugin(
                 s1, plugin_id, GameEv("ItemSpawned", c.request_id, item_id, c.kind, 0, 0, <<>>))
       [] c.type = "GivePlayerItem" ->
            dispatch_game_event_to_all(s, GameEv("ItemCollected", 0, 0, c.kind, 0, 0, <<>>))
       [] c.type = "SetPlayerHealth" ->
            LET health == IF c.amount < s.game_state.player_max_health
                          THEN c.amount ELSE s.game_state.player_max_health
            IN dispatch_game_event_to_all(
                 [s EXCEPT !.game_state.player_health = health],
                 GameEv("PlayerHealthChanged", 0, 0, "", health,
                        s.game_state.player_max_health, <<>>))
       [] c.type = "SetPlayerScore" ->
            dispatch_game_event_to_all(
              [s EXCEPT !.game_state.player_score = c.amount],
              GameEv("PlayerScoreChanged", 0, 0, "", c.amount, 0, <<>>))
       [] c.type = "TriggerGameEvent" -> trigger_game_event(s, c.name)

process_game_commands(s, commands) == FoldLeft(process_game_command, s, commands)

(***************************************************************************)
(* Initial state: PluginRuntime::new.                                      *)
(***************************************************************************)
NoCall == [op |-> "new", queued |-> <<>>, pending |-> <<>>, channel |-> 0,
           moved |-> FALSE, entity |-> 0, was |-> 0, id |-> 0, allocated |-> 0,
           deliver |-> EmptyMap, arg |-> <<>>, ret |-> <<>>, guest |-> EmptyMap]

Init ==
  /\ plugins = <<>>
  /\ plugin_id_to_index = EmptyMap
  /\ entity_map = EmptyMap
  /\ reverse_entity_map = EmptyMap
  /\ texture_id_to_name = EmptyMap
  /\ async_channel = <<>>
  /\ workers = <<>>
  /\ pending_input_events = <<>>
  /\ last_mouse_position = 0
  /\ next_entity_id = 1
  /\ next_texture_id = 1
  /\ next_plugin_id = 1
  /\ frames_since_cleanup = 0
  /\ world = InitWorld
  /\ game_state = DefaultGameState
  /\ game_plugin = DefaultGamePluginState
  /\ plugin_runtime = "None"
  /\ panicked = FALSE
  /\ trace = <<>>
  /\ last_gc = NoGc
  /\ call = NoCall
  /\ hist = [issued |-> <<>>, live |-> {}, frame_calls |-> 0, stale |-> EmptyMap,
             traps |-> EmptyMap, asked |-> {}, enemy_ids |-> <<>>, died |-> <<>>,
             waves |-> <<>>, initialized |-> FALSE]

(***************************************************************************)
(* Actions: one per handler.  Call(name, g) is the state the handler       *)
(* starts from, with the guests' behaviour g during the call; CallFrom is  *)
(* the same for a call that follows another one within a step.            *)
(***************************************************************************)
CallFrom(s, name, g) ==
  [s EXCEPT
     !.guest = g,
     !.trace = <<>>,
     !.last_gc = NoGc,
     !.call = [NoCall EXCEPT
                 !.op = name,
                 !.queued = s.pending_input_events,
                 !.channel = Len(s.async_channel),
                 !.moved = (s.world.mouse # s.last_mouse_position),
                 !.pending = [i \in 1..Len(s.plugins) |-> s.plugins[i].pending_commands],
                 !.deliver = [p \in DOMAIN g |-> g[p].deliver],
                 !.guest = g]]

Call(name, g) == CallFrom(Runtime, name, g)

WithinBounds(s) ==
  /\ s.world.next_entity <= MaxEntities + 1
  /\ s.next_entity_id <= MaxIds + 1
  /\ s.next_texture_id <= MaxTextures + 1
  /\ Len(s.workers) + Len(s.async_channel) <= MaxJobs
  /\ Len(s.world.commands) <= MaxWorldCommands
  /\ \A i \in 1..Len(s.plugins) : Len(s.plugins[i].pending_commands) <= MaxPending
  /\ s.game_state.next_enemy_id <= MaxEnemies + 1
  /\ s.game_state.next_item_id <= MaxItems + 1

\* The ids in the table whose entity is no longer valid.
StaleIds(s) ==
  {id \in DOMAIN s.entity_map : ~is_entity_valid(s.world, s.entity_map[id])}

\* The history of a run_frame call from s to t: its count, for each stale
\* id the run_frame calls it has survived, and for each plugin whose
\* on_frame trapped the calls in a row in which it did.
FrameHistory(s, t) ==
  LET trapped == {t.trace[k].plugin : k \in {j \in 1..Len(t.trace) :
                    t.trace[j].k = "on_frame" /\ t.trace[j].res = "trap"}}
  IN [t EXCEPT !.hist.frame_calls = @ + 1,
               !.hist.stale = [id \in StaleIds(t) |->
                                 IF id \in StaleIds(s)
                                 THEN MapGet(s.hist.stale, id) + 1
                                 ELSE 0],
               !.hist.traps = [p \in trapped |-> MapGet(s.hist.traps, p) + 1]]

\* run_frame, with the history of the call.
Frame(s) == FrameHistory(s, run_frame(s))

\* spawn_sun, spawn_pan_orbit_camera: an entity of the host, with transforms
\* and without a material.
SpawnHostEntity(w) ==
  [w EXCEPT !.local = MapPut(@, w.next_entity, Transform(0, 1, 0)),
            !.global = @ \cup {w.next_entity},
            !.next_entity = @ + 1]

\* main.rs initialize: the sun and the camera are spawned; if the runtime
\* is created (new: "Ok"), the engine plugins and the app plugins are
\* loaded, on_init is called on them, the game commands they sent
\* (`commands`, decoded) are processed, and the runtime is stored.
initialize(s, new, engine_plugins, app_plugins, commands) ==
  LET s1 == [s EXCEPT !.world = SpawnHostEntity(SpawnHostEntity(@)),
                      !.hist.initialized = TRUE]
  IN IF new = "Ok"
     THEN [process_game_commands(
             call_on_init(
               load_plugins_from_directory(
                 load_plugins_from_directory(s1, engine_plugins), app_plugins)),
             commands)
             EXCEPT !.plugin_runtime = "Some"]
     ELSE s1

\* main.rs run_systems (the camera system changes nothing the model holds):
\* with a runtime, run_frame and then the game commands the plugins sent.
\* The frame counter of the world is read, never written.
run_systems(s, commands) ==
  IF s.plugin_runtime = "Some"
  THEN process_game_commands(Frame(s), commands)
  ELSE s

\* KeyCode::KeyQ as u32, in the declaration order of the key codes.
KeyQ == 35

\* main.rs on_keyboard_input: Q pressed asks the window to close (the
\* engine reads the flag), and with a runtime the event is queued.
on_keyboard_input(s, key_code, pressed) ==
  LET s1 == IF key_code = KeyQ /\ pressed
            THEN [s EXCEPT !.world.should_exit = TRUE]
            ELSE s
  IN IF s1.plugin_runtime = "Some" THEN queue_keyboard_event(s1, key_code, pressed) ELSE s1

\* main.rs on_mouse_input.
on_mouse_input(s, pressed, button) ==
  IF s.plugin_runtime = "Some" THEN queue_mouse_event(s, pressed, button) ELSE s

\* The custom commands a handler drains come from loaded plugins.
FromPlugins(s, commands) ==
  \A k \in 1..Len(commands) : \E i \in 1..Len(s.plugins) : s.plugins[i].id = commands[k][1]

\* The engine calls initialize once, before anything else.
Initialize(new, engine_plugins, app_plugins, g, commands) ==
  /\ ~hist.initialized
  /\ IF new = "Ok"
     THEN LET loaded == load_plugins_from_directory(
                          load_plugins_from_directory(Runtime, engine_plugins),
                          app_plugins).plugins
          IN DOMAIN g = {loaded[i].id : i \in 1..Len(loaded)}
     ELSE g = EmptyMap /\ commands = <<>>
  /\ \E s \in {initialize(Call("initialize", g), new, engine_plugins, app_plugins,
                          commands)} :
       /\ Len(s.plugins) <= MaxPlugins
       /\ FromPlugins(s, commands)
       /\ WithinBounds(s)
       /\ Commit(s)

\* One frame of the application loop: the call is recorded as run_frame
\* when there is a runtime to run it.
RunSystems(g, commands, limit) ==
  /\ hist.initialized
  /\ hist.frame_calls < limit
  /\ IF plugin_runtime = "Some"
     THEN /\ DOMAIN g = {plugins[i].id : i \in 1..Len(plugins)}
          /\ FromPlugins(Runtime, commands)
     ELSE g = EmptyMap /\ commands = <<>>
  /\ \E s \in {run_systems(Call(IF plugin_runtime = "Some" THEN "run_frame"
                                ELSE "run_systems", g), commands)} :
       /\ WithinBounds(s)
       /\ Commit(s)

\* register_entity(entity), called on its own.
RegisterEntity(e) ==
  /\ plugin_runtime = "Some"
  /\ e < world.next_entity
  /\ \E reg \in {register_entity(Call("register_entity", EmptyMap), e)} :
       /\ WithinBounds(reg.s)
       /\ Commit([reg.s EXCEPT !.call.entity = e,
                               !.call.was = MapGet(reverse_entity_map, e),
                               !.call.id = reg.id,
                               !.call.allocated = reg.s.next_entity_id - next_entity_id])

\* unregister_entity(id), called on its own; call.was is the entity the id
\* mapped to before the call.
UnregisterEntity(id) ==
  /\ plugin_runtime = "Some"
  /\ Commit([unregister_entity(Call("unregister_entity", EmptyMap), id) EXCEPT
               !.call.id = id,
               !.call.was = MapGet(entity_map, id)])

\* process_commands on a command list of plugin `plugin_id`.
ProcessCommands(plugin_id, cmds) ==
  /\ plugin_runtime = "Some"
  /\ \E s \in {process_commands(Call("process_commands", EmptyMap),
                                 [k \in 1..Len(cmds) |-> <<plugin_id, cmds[k]>>])} :
       /\ WithinBounds(s)
       /\ Commit(s)

\* The host destroys an entity out-of-band.
WorldDestroy(e) ==
  /\ is_entity_valid(world, e)
  /\ Commit([Call("world_destroy", EmptyMap) EXCEPT !.world = DestroyEntity(@, e)])

\* load_plugins_from_directory(dir), on one directory after the other.
LoadPluginsFromDirectory(dir, limit) ==
  /\ plugin_runtime = "Some"
  /\ \E s \in {load_plugins_from_directory(
                  [Call("load_plugins_from_directory", EmptyMap) EXCEPT
                     !.call.arg = <<dir>>], dir)} :
       /\ Len(s.plugins) <= limit
       /\ Commit(s)

\* main.rs on_keyboard_input; the call is recorded as queue_keyboard_event
\* when there is a runtime to queue the event.
QueueKeyboardEvent(key_code, pressed) ==
  /\ hist.initialized
  /\ Len(pending_input_events) < MaxInputs
  /\ Commit(on_keyboard_input(Call(IF plugin_runtime = "Some" THEN "queue_keyboard_event"
                                   ELSE "on_keyboard_input", EmptyMap),
                              key_code, pressed))

\* main.rs on_mouse_input.
QueueMouseEvent(pressed, button) ==
  /\ hist.initialized
  /\ Len(pending_input_events) < MaxInputs
  /\ Commit(on_mouse_input(Call(IF plugin_runtime = "Some" THEN "queue_mouse_event"
                                ELSE "on_mouse_input", EmptyMap),
                           pressed, button))

\* The engine advances the frame counter of its window timing, which
\* run_frame reads for FrameStart.
WorldAdvanceFrame(limit) ==
  /\ world.frame_counter < limit
  /\ Commit([Call("world_advance_frame", EmptyMap) EXCEPT !.world.frame_counter = @ + 1])

\* The windowing layer records a new mouse position in the world.
WorldMouseMove(pos) ==
  /\ world.mouse # pos
  /\ Commit([Call("world_mouse_move", EmptyMap) EXCEPT !.world.mouse = pos])

WorkerFinish_registers_texture(i, result, gltf) ==
  /\ i \in 1..Len(workers)
  /\ result = "empty" => workers[i].kind = "Prefab"
  /\ Commit([Call("worker_finish", EmptyMap) EXCEPT
               !.workers = SubSeq(@, 1, i - 1) \o SubSeq(@, i + 1, Len(@)),
               !.async_channel = Append(@, Envelope(workers[i], result, gltf)),
               !.texture_id_to_name =
                 IF workers[i].kind = "Texture" /\ result = "ok"
                 THEN MapPut(@, workers[i].texture_id, workers[i].texture_name)
                 ELSE @])

\* A worker thread finishes and posts its result to the channel: an
\* error, a result or, for a prefab worker, a glTF that decodes and holds
\* no prefab ("empty"); gltf is what a prefab worker decoded (nothing for
\* another worker, or on an error).
WorkerFinish(i, result, gltf) ==
  /\ i \in 1..Len(workers)
  /\ result = "empty" => workers[i].kind = "Prefab"
  /\ (workers[i].kind # "Prefab" \/ result = "err") => gltf = Gltf(<<>>, <<>>)
  /\ Commit([Call("worker_finish", EmptyMap) EXCEPT
               !.workers = SubSeq(@, 1, i - 1) \o SubSeq(@, i + 1, Len(@)),
               !.async_channel = Append(@, Envelope(workers[i], result, gltf))])

(***************************************************************************)
(* Inputs.                                                                 *)
(***************************************************************************)
LogCmd(m) == Cmd("Log", 0, 0, <<m>>, 0)

Spawn(r) == Cmd("SpawnPrimitive", r, 0, <<>>, 1)

Despawn(id) == Cmd("DespawnEntity", 0, id, <<>>, 0)

GetPosition(id, r) == Cmd("GetEntityPosition", r, id, <<>>, 0)

SetPosition(id, x) == Cmd("SetEntityPosition", 0, id, <<>>, x)

ReadFile(path, r) == Cmd("ReadFile", r, 0, path, 0)

GetScale(id, r) == Cmd("GetEntityScale", r, id, <<>>, 0)

GetRotation(id, r) == Cmd("GetEntityRotation", r, id, <<>>, 0)

LoadTexture(path, r) == Cmd("LoadTexture", r, 0, path, 0)

LoadPrefab(path, r) == Cmd("LoadPrefab", r, 0, path, 2)

\* x holds the texture id.
SetMaterial(id, texture_id) == Cmd("SetEntityMaterial", 0, id, <<>>, texture_id)

TableCommands ==
  {<<Spawn(7)>>} \cup {<<Despawn(id)>> : id \in 1..MaxIds}

(***************************************************************************)
(* SpecTable: the entity handle table under register, unregister, command  *)
(* processing, out-of-band changes of the world and GC passes (no plugin   *)
(* loaded).  Frames run one by one; the table is operated on at three      *)
(* points of every GC period.                                              *)
(***************************************************************************)
NoDir == [exists |-> FALSE, read_dir |-> TRUE, entries |-> <<>>]

\* The frames at which the table is operated on: right after a GC pass,
\* half-way to the next and right before it.
AtPass == frames_since_cleanup \in {0, CLEANUP_INTERVAL_FRAMES \div 2, CLEANUP_INTERVAL_FRAMES - 1}

NextTable ==
  \/ Initialize("Ok", NoDir, NoDir, EmptyMap, <<>>)
  \/ \E e \in 1..MaxEntities : AtPass /\ WorldDestroy(e)
  \/ \E e \in 1..MaxEntities : AtPass /\ RegisterEntity(e)
  \/ \E id \in 1..MaxIds : AtPass /\ UnregisterEntity(id)
  \/ \E cmds \in TableCommands : AtPass /\ ProcessCommands(1, cmds)
  \/ RunSystems(EmptyMap, <<>>, MaxTableFrames)

SpecTable == Init /\ [][NextTable]_vars

(***************************************************************************)
(* SpecGC: out-of-band destruction of a registered entity (the first one   *)
(* the host spawned) against the frame counter of the GC.                  *)
(***************************************************************************)
NextGC ==
  \/ Initialize("Ok", NoDir, NoDir, EmptyMap, <<>>)
  \/ WorldDestroy(1)
  \/ RegisterEntity(1)
  \/ RunSystems(EmptyMap, <<>>, MaxGcFrames)

SpecGC == Init /\ [][NextGC]_vars

(***************************************************************************)
(* SpecLoad: plugin directories loaded one after the other.                *)
(***************************************************************************)
FullModule == Module(TRUE, TRUE, TRUE, TRUE, TRUE, TRUE)

NoFrameModule == Module(TRUE, TRUE, FALSE, TRUE, TRUE, TRUE)

NoReceiveModule == Module(TRUE, FALSE, TRUE, FALSE, TRUE, FALSE)

BrokenModule == Module(FALSE, FALSE, FALSE, FALSE, FALSE, FALSE)

NoMemoryModule == Module(TRUE, TRUE, TRUE, TRUE, FALSE, TRUE)

Entry(ext, m) == [ext |-> ext, module |-> m, err |-> FALSE]

\* The position of the listing where reading the next entry fails.
UnreadableEntry == [ext |-> "", module |-> BrokenModule, err |-> TRUE]

Dir(exists, entries) == [exists |-> exists, read_dir |-> TRUE, entries |-> entries]

\* A directory that exists and that read_dir cannot open.
Unlistable(entries) == [exists |-> TRUE, read_dir |-> FALSE, entries |-> entries]

Modules == {FullModule, NoFrameModule, NoReceiveModule, BrokenModule}

LoadDirectories ==
  {Dir(FALSE, <<>>), Dir(TRUE, <<Entry("txt", FullModule)>>)}
  \cup {Dir(TRUE, <<Entry("wasm", m)>>) : m \in Modules}
  \cup {Dir(TRUE, <<Entry("wasm", BrokenModule), Entry("wasm", m)>>) : m \in Modules}
  \cup {Dir(TRUE, <<Entry("wasm", FullModule), UnreadableEntry, Entry("wasm", FullModule)>>),
        Unlistable(<<Entry("wasm", FullModule)>>)}

NextLoad ==
  \/ Initialize("Ok", NoDir, NoDir, EmptyMap, <<>>)
  \/ \E dir \in LoadDirectories : LoadPluginsFromDirectory(dir, MaxLoaded)

SpecLoad == Init /\ [][NextLoad]_vars

(***************************************************************************)
(* Spec: the application loop of main.rs.  initialize loads the plugin     *)
(* directories and calls on_init, then the windowing layer queues input    *)
(* and moves the mouse, worker threads finish, and frames run.             *)
(***************************************************************************)
\* The plugins/engine and plugins/app directories initialize may find.
Directories ==
  {<<Dir(FALSE, <<>>), Dir(FALSE, <<>>)>>,
   <<Dir(TRUE, <<Entry("wasm", FullModule)>>), Dir(FALSE, <<>>)>>,
   <<Dir(TRUE, <<Entry("wasm", FullModule), Entry("wasm", BrokenModule)>>),
     Dir(TRUE, <<Entry("wasm", NoReceiveModule)>>)>>,
   <<Dir(TRUE, <<Entry("wasm", NoFrameModule), Entry("txt", FullModule)>>),
     Dir(TRUE, <<Entry("wasm", FullModule)>>)>>}

Idle == Behaviour(<<>>, <<>>, FALSE, "ok", {}, <<>>)

\* Logs when a key is pressed and when its entity is spawned; spawns and
\* logs in on_frame; one of its buffers does not decode.
Active ==
  Behaviour(<<Payload(TRUE, LogCmd("init"))>>,
            <<Payload(TRUE, Spawn(7)), Payload(FALSE, NoCmd), Payload(TRUE, LogCmd("frame"))>>,
            FALSE, "ok", {"KeyPressed", "EntitySpawned"}, <<Payload(TRUE, LogCmd("event"))>>)

\* Asks for a file, then traps in on_frame; traps when it receives.
Trapping ==
  Behaviour(<<>>, <<Payload(TRUE, ReadFile(<<"logo.png">>, 3))>>,
            TRUE, "recv_trap", {}, <<>>)

Behaviours == {Idle, Active, Trapping}

\* The plugin ids in use, and a behaviour for each.
Guests(B) == [{plugins[i].id : i \in 1..Len(plugins)} -> B]

\* A behaviour for each of the plugins initialize may load.
InitGuestsOf(B) == UNION {[1..n -> B] : n \in 0..MaxPlugins}

KeyCodes == {17}

Buttons == {MouseButton("Other", 1)}

MousePositions == {0, 1}

Next ==
  \/ \E new \in {"Ok", "Err"}, dirs \in Directories, g \in InitGuestsOf({Idle, Active}) :
       Initialize(new, dirs[1], dirs[2], g, <<>>)
  \/ \E k \in KeyCodes : QueueKeyboardEvent(k, TRUE)
  \/ \E b \in Buttons : QueueMouseEvent(TRUE, b)
  \/ \E pos \in MousePositions : WorldMouseMove(pos)
  \/ WorldAdvanceFrame(MaxFrames)
  \/ \E result \in {"ok", "err"} : WorkerFinish(1, result, Gltf(<<>>, <<>>))
  \/ \E g \in Guests(Behaviours) \cup {EmptyMap} : RunSystems(g, <<>>, MaxFrames)

Spec == Init /\ [][Next]_vars

(***************************************************************************)
(* SpecMemory: the bounds check of host_send_command, on every pointer,    *)
(* every length and every size of the guest memory, in a build that checks *)
(* integer overflow and in one that wraps.                                 *)
(***************************************************************************)
U32 == 0..(2^Width - 1)

\* memory.data(&caller).len(): a 32-bit memory holds up to 2^32 bytes.
MemorySizes == 0..(2^Width)

\* The guest of plugin 1 calls host_send_command(ptr, len), for the first
\* time, while its memory holds data_len bytes; ok: the bytes decode.
HostSendCommand(ptr, len, data_len, overflow_checks, ok) ==
  /\ call.op = "initialize"
  /\ plugins # <<>>
  /\ \E s \in {host_send_command(
                 [Call("host_send_command", EmptyMap) EXCEPT
                    !.call.arg = [ptr |-> ptr, len |-> len, data_len |-> data_len,
                                  overflow_checks |-> overflow_checks, ok |-> ok],
                    !.call.ret = IF plugins[1].memory
                                 THEN command_bytes(ptr, len, data_len, overflow_checks)
                                 ELSE Slice("no_memory", 0, 0)],
                 1, Buffer(ptr, len, data_len, overflow_checks, ok, LogCmd("guest")))} :
       /\ WithinBounds(s)
       /\ Commit(s)

NextMemory ==
  \/ \E m \in {FullModule, NoMemoryModule} :
       Initialize("Ok", Dir(TRUE, <<Entry("wasm", m)>>), NoDir, 1 :> Idle, <<>>)
  \/ \E ptr \in U32, len \in U32, data_len \in MemorySizes, overflow_checks \in BOOLEAN,
        ok \in BOOLEAN :
       HostSendCommand(ptr, len, data_len, overflow_checks, ok)

SpecMemory == Init /\ [][NextMemory]_vars

(***************************************************************************)
(* SpecSanitize: sanitize_path on every guest path of up to MaxPathLen     *)
(* components.  The path is chosen initially; the step applies the         *)
(* function to it and records the argument and the result.                 *)
(***************************************************************************)
Components ==
  {"..", "/", "C:", "logo.png", "link_in", "link_out", "link_sib", "sub", "missing"}

GuestPaths == UNION {[1..n -> Components] : n \in 0..MaxPathLen}

InitSanitize ==
  /\ plugins = <<>>
  /\ plugin_id_to_index = EmptyMap
  /\ entity_map = EmptyMap
  /\ reverse_entity_map = EmptyMap
  /\ texture_id_to_name = EmptyMap
  /\ async_channel = <<>>
  /\ workers = <<>>
  /\ pending_input_events = <<>>
  /\ last_mouse_position = 0
  /\ next_entity_id = 1
  /\ next_texture_id = 1
  /\ next_plugin_id = 1
  /\ frames_since_cleanup = 0
  /\ world = InitWorld
  /\ game_state = DefaultGameState
  /\ game_plugin = DefaultGamePluginState
  /\ plugin_runtime = "None"
  /\ panicked = FALSE
  /\ trace = <<>>
  /\ last_gc = NoGc
  /\ \E path \in GuestPaths : call = [NoCall EXCEPT !.arg = path]
  /\ hist = [issued |-> <<>>, live |-> {}, frame_calls |-> 0, stale |-> EmptyMap,
             traps |-> EmptyMap, asked |-> {}, enemy_ids |-> <<>>, died |-> <<>>,
             waves |-> <<>>, initialized |-> FALSE]

\* sanitize_path(path), called on its own.
SanitizePath ==
  /\ call.op = "new"
  /\ Commit([Call("sanitize_path", EmptyMap) EXCEPT
               !.call.arg = call.arg,
               !.call.ret = sanitize_path(call.arg)])

NextSanitize == SanitizePath

SpecSanitize == InitSanitize /\ [][NextSanitize]_vars

(***************************************************************************)
(* SpecCommands: two plugins with every export.  In each frame on_frame of *)
(* one of them sends a command (or nothing, an undecodable buffer, or a    *)
(* command before it traps), or both send one; workers finish with a       *)
(* result, and the host destroys the first entity out-of-band.  The first  *)
(* plugin uses request id 7, the second 8, and both a request id of their  *)
(* own (17, 18) for the paths the sanitizer rejects.                       *)
(***************************************************************************)
Sends(c) == Behaviour(<<>>, <<Payload(TRUE, c)>>, FALSE, "ok", {}, <<>>)

Garbled ==
  Behaviour(<<>>, <<Payload(FALSE, NoCmd), Payload(TRUE, LogCmd("frame"))>>,
            FALSE, "ok", {}, <<>>)

\* Sends a command, then a buffer that starts one byte too late to fit in
\* the memory, then one that ends with the last byte of a memory of the
\* largest size; overflow_checks is the build of the host.
Overrun(overflow_checks) ==
  Behaviour(<<>>,
            <<Payload(TRUE, Spawn(7)),
              Buffer(2^Width - 1, 2, 2^Width, overflow_checks, TRUE, LogCmd("outside")),
              Buffer(2^Width - 2, 2, 2^Width, overflow_checks, TRUE, LogCmd("last"))>>,
            FALSE, "ok", {}, <<>>)

PrimaryCommands(r) ==
  {Spawn(r), Despawn(1), GetPosition(1, r), GetScale(1, r), GetRotation(2, r),
   SetPosition(1, 5),
   ReadFile(<<"logo.png">>, r), ReadFile(<<"..", "plugins", "logo.png">>, r + 10),
   LoadTexture(<<"link_in">>, r), LoadTexture(<<"link_out">>, r + 10),
   LoadPrefab(<<"sub", "logo.png">>, r), LoadPrefab(<<"/", "etc", "passwd">>, r + 10)}

SecondaryCommands(r) ==
  {Spawn(r), GetPosition(1, r), ReadFile(<<"link_in">>, r),
   ReadFile(<<"link_sib">>, r + 10)}

\* Sends an undecodable buffer, a command on an unknown entity, a path the
\* sanitizer rejects, a material for an unknown entity and a file request,
\* then traps in on_frame; traps when it receives.
Chaos ==
  Behaviour(<<>>,
            <<Payload(FALSE, NoCmd), Payload(TRUE, Despawn(2)),
              Payload(TRUE, ReadFile(<<"..", "plugins", "logo.png">>, 17)),
              Payload(TRUE, SetMaterial(2, 1)),
              Payload(TRUE, ReadFile(<<"logo.png">>, 7))>>,
            TRUE, "recv_trap", {}, <<>>)

\* What the first and the second plugin do in a frame.
CommandPairs ==
  {<<Sends(c), Idle>> : c \in PrimaryCommands(7)}
  \cup {<<Idle, Sends(c)>> : c \in SecondaryCommands(8)}
  \cup {<<Overrun(overflow_checks), Idle>> : overflow_checks \in BOOLEAN}
  \cup {<<Idle, Idle>>, <<Garbled, Idle>>,
         <<Chaos, Sends(GetPosition(1, 8))>>,
         <<Sends(Spawn(7)), Sends(GetPosition(1, 8))>>,
         <<Sends(SetPosition(1, 5)), Sends(GetPosition(1, 8))>>,
         <<Sends(ReadFile(<<"..", "plugins", "logo.png">>, 17)),
           Sends(ReadFile(<<"link_in">>, 8))>>}

\* A behaviour for each loaded plugin: the first loaded is the first plugin.
GuestsOf(pairs) ==
  {[p \in {plugins[i].id : i \in 1..Len(plugins)} |->
      IF p = plugins[1].id THEN b[1] ELSE b[2]] : b \in pairs}

TwoFullPlugins ==
  <<Dir(TRUE, <<Entry("wasm", FullModule)>>), Dir(TRUE, <<Entry("wasm", FullModule)>>)>>

\* Spawns a primitive in on_init.
Starter == Behaviour(<<Payload(TRUE, Spawn(7))>>, <<>>, FALSE, "ok", {}, <<>>)

\* on_init: nothing is sent, or the first plugin spawns a primitive.
InitGuests ==
  {[p \in 1..2 |-> Idle], [p \in 1..2 |-> IF p = 1 THEN Starter ELSE Idle]}

\* What a prefab worker may have decoded.
Gltfs ==
  {Gltf(<<>>, <<>>), Gltf(<<"body">>, <<"skin">>), Gltf(<<"body", "wheel">>, <<"skin", "glass">>),
   Gltf(<<"wheel", "body">>, <<"glass", "skin">>)}

NextCommands ==
  \/ \E g \in InitGuests :
       Initialize("Ok", TwoFullPlugins[1], TwoFullPlugins[2], g, <<>>)
  \/ \E result \in {"ok", "err", "empty"}, gltf \in Gltfs : WorkerFinish(1, result, gltf)
  \/ WorldDestroy(3)
  \/ \E g \in GuestsOf(CommandPairs) : RunSystems(g, <<>>, MaxFrames)

SpecCommands == Init /\ [][NextCommands]_vars

(***************************************************************************)
(* SpecInit: initialize on two plugins of which each may lack on_init, send *)
(* a command in on_init, or trap in on_init after sending one; frames then *)
(* run as in main.rs.                                                      *)
(***************************************************************************)
NoInitModule == Module(TRUE, FALSE, TRUE, TRUE, TRUE, TRUE)

InitDirectories ==
  {<<Dir(TRUE, <<Entry("wasm", a)>>), Dir(TRUE, <<Entry("wasm", b)>>)>> :
     a, b \in {FullModule, NoInitModule}}
  \cup {<<Dir(TRUE, <<Entry("wasm", FullModule), Entry("wasm", FullModule)>>),
          Dir(FALSE, <<>>)>>}

\* Sends a Log command in on_init and then traps; sends two Log commands
\* in on_frame and then traps.
Crasher ==
  Behaviour(<<Payload(TRUE, LogCmd("init"))>>,
            <<Payload(TRUE, LogCmd("first")), Payload(TRUE, LogCmd("second"))>>,
            TRUE, "ok", {}, <<>>)

\* Sends a Log command in on_init, then a buffer that ends with the last
\* byte of a memory of the largest size.
InitOverrun ==
  Behaviour(<<Payload(TRUE, LogCmd("init")),
              Buffer(2^Width - 2, 2, 2^Width, FALSE, TRUE, LogCmd("last"))>>,
            <<>>, FALSE, "ok", {}, <<>>)

InitBehaviours == {Idle, Starter, Crasher, InitOverrun}

NextInit ==
  \/ \E new \in {"Ok", "Err"}, dirs \in InitDirectories, g \in InitGuestsOf(InitBehaviours) :
       Initialize(new, dirs[1], dirs[2], g, <<>>)
  \/ \E k \in KeyCodes \cup {KeyQ} : QueueKeyboardEvent(k, TRUE)
  \/ \E g \in Guests({Idle, Sends(LogCmd("frame")), Crasher}) \cup {EmptyMap} :
       RunSystems(g, <<>>, MaxFrames)

SpecInit == Init /\ [][NextInit]_vars

(***************************************************************************)
(* SpecDispatch: broadcasts to two plugins of which one cannot receive: it *)
(* lacks an export, or its guest fails during the delivery.  The windowing *)
(* layer queues key releases, and a guest that receives one sends a Log    *)
(* command while it handles it.                                            *)
(***************************************************************************)
NoAllocModule == Module(TRUE, TRUE, TRUE, FALSE, TRUE, TRUE)

NoEventModule == Module(TRUE, TRUE, TRUE, TRUE, TRUE, FALSE)

DispatchModules == {FullModule, NoAllocModule, NoMemoryModule, NoEventModule}

DispatchDirectories ==
  {<<Dir(TRUE, <<Entry("wasm", mod), Entry("wasm", FullModule)>>), Dir(FALSE, <<>>)>> :
     mod \in DispatchModules}
  \cup {<<Dir(TRUE, <<Entry("wasm", FullModule)>>), Dir(TRUE, <<Entry("wasm", mod)>>)>> :
          mod \in DispatchModules}

\* deliver: "ok", or the step of the delivery at which the guest fails.
Listener(deliver) ==
  Behaviour(<<>>, <<>>, FALSE, deliver, {"KeyReleased"}, <<Payload(TRUE, LogCmd("event"))>>)

Deliveries == {"ok", "alloc_trap", "oob", "recv_trap"}

DispatchPairs ==
  {<<Listener(d), Listener("ok")>> : d \in Deliveries}
  \cup {<<Listener("ok"), Listener(d)>> : d \in Deliveries}

NextDispatch ==
  \/ \E dirs \in DispatchDirectories, g \in InitGuestsOf({Idle}) :
       Initialize("Ok", dirs[1], dirs[2], g, <<>>)
  \/ \E k \in KeyCodes : QueueKeyboardEvent(k, FALSE)
  \/ WorldAdvanceFrame(MaxFrames)
  \/ \E g \in GuestsOf(DispatchPairs) : RunSystems(g, <<>>, MaxFrames)

SpecDispatch == Init /\ [][NextDispatch]_vars

(***************************************************************************)
(* SpecMaterial: the first of two plugins loads a texture and a prefab,    *)
(* spawns a primitive and sets materials, over enough frames for a texture *)
(* and a prefab to be loaded one after the other.                          *)
(***************************************************************************)
MaterialPairs ==
  {<<Sends(c), Idle>> :
     c \in {Spawn(7), LoadTexture(<<"logo.png">>, 7), LoadPrefab(<<"sub", "logo.png">>, 7),
            SetMaterial(1, 1), SetMaterial(2, 1), SetMaterial(1, 2)}}

NextMaterial ==
  \/ \E g \in InitGuestsOf({Idle}) :
       Initialize("Ok", TwoFullPlugins[1], TwoFullPlugins[2], g, <<>>)
  \/ \E result \in {"ok", "err", "empty"} : WorkerFinish(1, result, Gltf(<<>>, <<>>))
  \/ \E g \in GuestsOf(MaterialPairs) : RunSystems(g, <<>>, MaxCommandFrames)

SpecMaterial == Init /\ [][NextMaterial]_vars

(***************************************************************************)
(* SpecAsync: the asset pipeline.  Two plugins ask for files, textures and *)
(* a prefab, each request id used once; the worker threads finish in any   *)
(* order, with a result or an error.  A worker that runs finishes, and     *)
(* run_frame keeps being called: up to MaxCommandFrames frames in which    *)
(* the guests may ask, then frames as long as results wait in the channel. *)
(***************************************************************************)
AsyncPairs ==
  {<<Sends(LoadTexture(<<"logo.png">>, 7)), Sends(ReadFile(<<"link_in">>, 8))>>,
   <<Sends(LoadTexture(<<"link_in">>, 9)), Idle>>,
   <<Idle, Sends(LoadPrefab(<<"sub", "logo.png">>, 10))>>,
   <<Sends(ReadFile(<<"link_out">>, 11)), Idle>>,
   <<Idle, Idle>>}

\* No request of the frame was made before.
Fresh(g) ==
  \A p \in DOMAIN g : \A k \in 1..Len(g[p].frame) :
    LET c == g[p].frame[k].cmd
    IN c.type \in Requests => <<p, c.request_id, c.type>> \notin hist.asked

Asks(g) == \E p \in DOMAIN g : g[p].frame # <<>>

\* One frame of the application loop, as long as the guests may ask or a
\* result waits in the channel.
AsyncFrame(g) ==
  /\ plugin_runtime = "Some"
  /\ Fresh(g)
  /\ IF hist.frame_calls < MaxCommandFrames THEN TRUE
     ELSE async_channel # <<>> /\ ~Asks(g)
  /\ Commit(run_systems(Call("run_frame", g), <<>>))

\* A worker finishes, with what it may have decoded.
AsyncWorkerFinish ==
  \E i \in 1..Len(workers), result \in {"ok", "err", "empty"},
     gltf \in {Gltf(<<>>, <<>>), Gltf(<<"body">>, <<"skin">>)} :
    WorkerFinish(i, result, gltf)

NextAsync ==
  \/ \E g \in InitGuestsOf({Idle}) :
       Initialize("Ok", TwoFullPlugins[1], TwoFullPlugins[2], g, <<>>)
  \/ AsyncWorkerFinish
  \/ \E g \in GuestsOf(AsyncPairs) : AsyncFrame(g)

\* A frame can run: the frame in which no guest asks is then enabled.
FrameEnabled ==
  /\ plugin_runtime = "Some"
  /\ ~panicked
  /\ hist.frame_calls < MaxCommandFrames \/ async_channel # <<>>

\* Weak fairness of the frame, with its enabling condition written out.
FramesKeepRunning ==
  []<>~FrameEnabled \/ []<><<\E g \in GuestsOf(AsyncPairs) : AsyncFrame(g)>>_vars

SpecAsync ==
  /\ Init
  /\ [][NextAsync]_vars
  /\ WF_vars(AsyncWorkerFinish)
  /\ FramesKeepRunning

\* The requests of the guests, each as <<plugin id, request id>>.
AsyncRequests ==
  UNION {UNION {{<<i, b[i].frame[k].cmd.request_id>> : k \in 1..Len(b[i].frame)} :
                  i \in DOMAIN b} : b \in AsyncPairs}

\* A worker runs for the request, or its result waits in the channel.
InFlight(q) ==
  \/ \E i \in 1..Len(workers) :
       workers[i].plugin_id = q[1] /\ workers[i].request_id = q[2]
  \/ \E i \in 1..Len(async_channel) :
       async_channel[i].plugin_id = q[1] /\ async_channel[i].request_id = q[2]

\* The run_frame call just made sent the reply to the request.
Replied(q) ==
  /\ call.op = "run_frame"
  /\ \E a \in 1..Len(trace) :
       /\ trace[a].fn = "process_async_results"
       /\ trace[a].k = "send"
       /\ trace[a].plugin = q[1]
       /\ trace[a].ev.request_id = q[2]

(***************************************************************************)
(* SpecTextures: the first plugin asks twice for the same texture, the     *)
(* second once for a path the sanitizer rejects; workers finish in any     *)
(* order, with a result or an error.                                       *)
(***************************************************************************)
TexturePairs ==
  {<<Sends(LoadTexture(<<"logo.png">>, 7)), Sends(LoadTexture(<<"link_out">>, 13))>>,
   <<Sends(LoadTexture(<<"logo.png">>, 12)), Idle>>,
   <<Idle, Idle>>}

NextTextures ==
  \/ \E g \in InitGuestsOf({Idle}) :
       Initialize("Ok", TwoFullPlugins[1], TwoFullPlugins[2], g, <<>>)
  \/ \E i \in 1..Len(workers), result \in {"ok", "err"} :
       WorkerFinish(i, result, Gltf(<<>>, <<>>))
  \/ \E g \in GuestsOf(TexturePairs) : AsyncFrame(g)

SpecTextures == Init /\ [][NextTextures]_vars

(***************************************************************************)
(* SpecDespawn: two plugins, the first of which may spawn a primitive in   *)
(* on_init; in a frame a plugin despawns the entity and then, in the same  *)
(* on_frame or from the plugin called after it, reads it, writes it, gives *)
(* it a material and despawns it again.  The host may destroy the entity   *)
(* out-of-band.                                                            *)
(***************************************************************************)
SetScale(id, x) == Cmd("SetEntityScale", 0, id, <<>>, x)

SetRotation(id, x) == Cmd("SetEntityRotation", 0, id, <<>>, x)

\* Everything a plugin can do to entity id after it has despawned it.
Burst(id, r) ==
  Behaviour(<<>>,
            <<Payload(TRUE, SetPosition(id, 3)), Payload(TRUE, Despawn(id)),
              Payload(TRUE, GetPosition(id, r)), Payload(TRUE, SetPosition(id, 5)),
              Payload(TRUE, SetMaterial(id, 1)), Payload(TRUE, Despawn(id))>>,
            FALSE, "ok", {}, <<>>)

\* What a plugin called after the despawn can do to entity id.
Follower(id, r) ==
  Behaviour(<<>>,
            <<Payload(TRUE, SetScale(id, 4)), Payload(TRUE, GetScale(id, r)),
              Payload(TRUE, SetRotation(id, 2)), Payload(TRUE, GetRotation(id, r + 10))>>,
            FALSE, "ok", {}, <<>>)

DespawnPairs ==
  {<<Burst(1, 7), Sends(GetPosition(1, 8))>>,
   <<Sends(Despawn(1)), Follower(1, 8)>>,
   <<Sends(Spawn(7)), Sends(Despawn(2))>>,
   <<Sends(SetPosition(1, 5)), Follower(1, 8)>>,
   <<Sends(GetPosition(1, 7)), Sends(Despawn(1))>>}

NextDespawn ==
  \/ \E g \in InitGuests :
       Initialize("Ok", TwoFullPlugins[1], TwoFullPlugins[2], g, <<>>)
  \/ WorldDestroy(3)
  \/ \E g \in GuestsOf(DespawnPairs) : RunSystems(g, <<>>, MaxCommandFrames)

SpecDespawn == Init /\ [][NextDespawn]_vars

(***************************************************************************)
(* SpecGame: two plugins send game commands, one or several a frame: they  *)
(* spawn enemies of every type, damage them by nothing, by part of their   *)
(* health, by more than their health and by the largest amount, despawn    *)
(* them, known or not, spawn and give items, set the player's health and   *)
(* score, and trigger events whose names have, or nearly have, the form of *)
(* a wave event.                                                           *)
(***************************************************************************)
Damages == {0, 15, 60, 2147483647}

EventNames ==
  {WavePrefix \o n \o StartSuffix :
     n \in {<<"3">>, <<"0", "7">>, <<"+", "2">>, <<"-", "1">>, <<>>, <<"x">>, <<"+">>,
            <<"2", "1", "4", "7", "4", "8", "3", "6", "4", "7">>,
            <<"4", "2", "9", "4", "9", "6", "7", "2", "9", "6">>,
            <<"4", "2", "9", "4", "9", "6", "7", "3", "0", "0">>,
            <<"1">> \o CompleteSuffix}}
  \cup {WavePrefix \o n \o CompleteSuffix :
          n \in {<<"3">>, <<"1", "2">>, <<"3", " ">>, <<>>, <<"1">> \o StartSuffix}}
  \cup {<<"w", "a", "v", "e">> \o StartSuffix, <<"3">> \o StartSuffix,
        WavePrefix \o <<"3">>, <<"b", "o", "s", "s">>, <<>>,
        <<"W">> \o Tail(WavePrefix) \o <<"3">> \o StartSuffix}

GameCommands ==
  {<<<<1, SpawnEnemy(t, Vec3(-40, 5, -80), 7)>>>> : t \in {"Slime", "Skeleton", "Dragon"}}
  \cup {<<<<2, SpawnEnemy("Dragon", Vec3(0, 20, -100), 8)>>>>}
  \cup {<<<<p, DamageEnemy(id, d)>>>> : p \in {2}, id \in 1..2, d \in Damages}
  \cup {<<<<1, DamageEnemy(MaxEnemies + 1, 15)>>>>}
  \cup {<<<<p, DespawnEnemy(id)>>>> : p \in {1}, id \in 1..2}
  \cup {<<<<2, DespawnEnemy(MaxEnemies + 1)>>>>}
  \cup {<<<<1, SpawnEnemy("Skeleton", Vec3(-20, 10, -80), 7)>>, <<2, DamageEnemy(id, 15)>>,
          <<2, DespawnEnemy(id)>>, <<1, DespawnEnemy(id)>>, <<2, DamageEnemy(id, 15)>>>> :
          id \in 1..2}
  \cup {<<<<2, SpawnItem("Sword", Vec3(0, 5, -30), 8)>>, <<1, GivePlayerItem("Shield")>>>>,
        <<<<1, SetPlayerHealth(150)>>, <<1, SetPlayerScore(9)>>>>,
        <<<<2, SetPlayerHealth(40)>>>>,
        <<>>}
  \cup {<<<<1, TriggerGameEvent(n)>>>> : n \in EventNames}
  \cup {<<<<1, TriggerGameEvent(WavePrefix \o <<"3">> \o StartSuffix)>>,
          <<2, TriggerGameEvent(WavePrefix \o <<"x">> \o StartSuffix)>>,
          <<2, TriggerGameEvent(WavePrefix \o <<"1", "2">> \o CompleteSuffix)>>,
          <<1, TriggerGameEvent(<<"b", "o", "s", "s">>)>>>>}

NextGame ==
  \/ \E new \in {"Ok", "Err"}, g \in InitGuestsOf({Idle}),
        commands \in {<<>>, <<<<1, SpawnEnemy("Slime", Vec3(-40, 5, -80), 7)>>>>} :
       Initialize(new, TwoFullPlugins[1], TwoFullPlugins[2], g, commands)
  \/ \E g \in Guests({Idle}), commands \in GameCommands : RunSystems(g, commands, MaxGameFrames)

SpecGame == Init /\ [][NextGame]_vars

(***************************************************************************)
(* The game plugin (plugins/game-plugin).  on_frame handles the engine     *)
(* events and then the game events that were delivered to the plugin since *)
(* its last call.  The entry of an event records whether a wave was active *)
(* and which enemies the plugin knew when the event was handled; the entry *)
(* of a request is a game command the plugin sent.  Time is counted in     *)
(* seconds; the lines the plugin logs are left out.                        *)
(***************************************************************************)
Handling(s, event) ==
  Log(s, T("on_frame", "event", 0, event, NoCmd,
           IF s.game_plugin.wave_active THEN "active" ELSE "idle",
           DOMAIN s.game_plugin.enemies))

\* send_game_command (shared crate).  The history keeps the names of the
\* events the plugin asked the host to trigger, in order.
send_game_command(s, command) ==
  LET s1 == IF command.type = "TriggerGameEvent"
            THEN [s EXCEPT !.hist.waves = Append(@, command.name)]
            ELSE s
  IN Log(s1, T("send_game_command", "request", 0, NoEv, command, "", {}))

\* spawn_enemy (shared crate): the request id comes from the counter.
spawn_enemy(s, enemy_type, position) ==
  send_game_command([s EXCEPT !.game_plugin.next_request_id = @ + 1],
                    SpawnEnemy(enemy_type, position, s.game_plugin.next_request_id))

spawn_item(s, item_type, position) ==
  send_game_command([s EXCEPT !.game_plugin.next_request_id = @ + 1],
                    SpawnItem(item_type, position, s.game_plugin.next_request_id))

\* format!("{}", n) of an unsigned integer: its decimal digits.
RECURSIVE Decimal(_)
Decimal(n) ==
  LET digit == <<"0", "1", "2", "3", "4", "5", "6", "7", "8", "9">>
  IN IF n < 10 THEN <<digit[n + 1]>> ELSE Decimal(n \div 10) \o <<digit[(n % 10) + 1]>>

\* EngineEvent::FrameStart: event.x is delta_time.
frame_start(s, event) ==
  IF s.game_plugin.wave_active
  THEN LET s1 == [s EXCEPT !.game_plugin.spawn_timer = @ + event.x]
           p == s1.game_plugin
       IN IF p.spawn_timer >= 2 /\ p.enemies_alive < 5
          THEN LET s2 == [s1 EXCEPT !.game_plugin.spawn_timer = 0]
                   x == p.enemies_alive * 20 - 40
                   z == -80
               IN CASE p.wave_number = 1 -> spawn_enemy(s2, "Slime", Vec3(x, 5, z))
                    [] p.wave_number = 2 ->
                         IF p.enemies_alive % 2 = 0
                         THEN spawn_enemy(s2, "Slime", Vec3(x, 5, z))
                         ELSE spawn_enemy(s2, "Skeleton", Vec3(x, 10, z))
                    [] OTHER ->
                         IF p.enemies_alive = 0
                         THEN spawn_enemy(s2, "Dragon", Vec3(0, 20, -100))
                         ELSE spawn_enemy(s2, "Skeleton", Vec3(x, 10, z))
          ELSE s1
  ELSE s

start_wave_unguarded(s) ==
  LET s1 == [s EXCEPT !.game_plugin.wave_number = @ + 1,
                      !.game_plugin.wave_active = TRUE,
                      !.game_plugin.spawn_timer = 0]
  IN send_game_command(
       s1, TriggerGameEvent(WavePrefix \o Decimal(s1.game_plugin.wave_number)
                              \o StartSuffix))

\* EngineEvent::KeyPressed { key_code: 17 }.
start_wave(s) ==
  IF ~s.game_plugin.wave_active
  THEN LET s1 == [s EXCEPT !.game_plugin.wave_number = @ + 1,
                           !.game_plugin.wave_active = TRUE,
                           !.game_plugin.spawn_timer = 0]
       IN send_game_command(
            s1, TriggerGameEvent(WavePrefix \o Decimal(s1.game_plugin.wave_number)
                                   \o StartSuffix))
  ELSE s

\* The keys of a HashMap in the order in which it yields them: `order`
\* lists the keys the map may hold as its hasher arranges them.
Keys(map, order) == SelectSeq(order, LAMBDA k : Has(map, k))

\* EngineEvent::KeyPressed: event.id is the key code.
key_pressed(s, event, order) ==
  CASE event.id = 17 -> start_wave(s)
    [] event.id = 37 ->
         LET damage(acc, enemy_id) == send_game_command(acc, DamageEnemy(enemy_id, 25))
         IN FoldLeft(damage, s, Keys(s.game_plugin.enemies, order))
    [] event.id = 35 -> send_game_command(s, GivePlayerItem("HealthPotion"))
    [] event.id = 31 -> send_game_command(s, GivePlayerItem("Sword"))
    [] event.id = 23 ->
         spawn_item(s, "HealthPotion", Vec3(s.game_plugin.enemies_alive * 20, 5, -30))
    [] OTHER -> s

engine_event(s0, event, order) ==
  LET s == Handling(s0, event)
  IN CASE event.type = "FrameStart" -> frame_start(s, event)
       [] event.type = "KeyPressed" -> key_pressed(s, event, order)
       [] OTHER -> s

\* GameEvent::EnemyDied.
enemy_died(s, event) ==
  LET points == CASE event.kind = "Slime" -> 10
                  [] event.kind = "Skeleton" -> 25
                  [] event.kind = "Dragon" -> 100
      s1 == [s EXCEPT !.game_plugin.enemies = MapRemove(@, event.id),
                      !.game_plugin.enemies_alive = saturating_sub(@, 1),
                      !.game_plugin.player_score = @ + points]
      s2 == send_game_command(s1, SetPlayerScore(s1.game_plugin.player_score))
  IN IF s2.game_plugin.enemies = EmptyMap /\ s2.game_plugin.wave_active
     THEN send_game_command(
            [s2 EXCEPT !.game_plugin.wave_active = FALSE],
            TriggerGameEvent(WavePrefix \o Decimal(s2.game_plugin.wave_number)
                               \o CompleteSuffix))
     ELSE s2

\* The plugin's enemies hold their health only.
game_event(s0, event) ==
  LET s == Handling(s0, event)
  IN CASE event.type = "EnemySpawned" ->
            [s EXCEPT !.game_plugin.enemies =
                        MapPut(@, event.id, get_enemy_max_health(event.kind)),
                      !.game_plugin.enemies_alive = @ + 1]
       [] event.type = "EnemyDamaged" ->
            IF Has(s.game_plugin.enemies, event.id)
            THEN LET s1 == [s EXCEPT !.game_plugin.enemies[event.id] = event.value]
                 IN IF event.value = 0
                    THEN send_game_command(s1, DespawnEnemy(event.id))
                    ELSE s1
            ELSE s
       [] event.type = "EnemyDied" -> enemy_died(s, event)
       [] OTHER -> s

\* on_init of the game plugin.
game_plugin_on_init(s) ==
  IF s.game_plugin.initialized THEN s
  ELSE send_game_command(
         send_game_command([s EXCEPT !.game_plugin.initialized = TRUE],
                           SetPlayerHealth(100)),
         SetPlayerScore(0))

\* on_frame of the game plugin, given the events it drains and the order
\* in which its map of enemies iterates.
game_plugin_on_frame(s, engine_events, game_events, order) ==
  LET engine(acc, event) == engine_event(acc, event, order)
  IN FoldLeft(game_event, FoldLeft(engine, s, engine_events), game_events)

\* The host calls on_init once, before the first on_frame.
GamePluginOnInit ==
  /\ call.op = "new"
  /\ \E s \in {game_plugin_on_init(Call("game_plugin_on_init", EmptyMap))} : Commit(s)

GamePluginOnFrame(engine_events, game_events, order) ==
  /\ call.op # "new"
  /\ DOMAIN game_plugin.enemies \subseteq Range(order)
  /\ \E s \in {game_plugin_on_frame(
                 [Call("game_plugin_on_frame", EmptyMap) EXCEPT
                    !.call.arg = <<engine_events, game_events>>],
                 engine_events, game_events, order)} :
       /\ s.game_plugin.wave_number <= MaxWaves
       /\ s.game_plugin.enemies_alive <= MaxAlive
       /\ s.game_plugin.player_score <= MaxScore
       /\ s.game_plugin.next_request_id <= MaxRequests + 1
       /\ Commit(s)

(***************************************************************************)
(* SpecWaves: the game plugin under the events a frame can bring: frame    *)
(* starts, key presses ('W' is 17, once or twice in a frame), enemies      *)
(* spawned, damaged and dead, among them enemies the plugin never heard    *)
(* of, and events it only logs.                                            *)
(***************************************************************************)
EngineEvents ==
  {<<>>,
   <<Ev("KeyPressed", 0, 17, 0, "")>>,
   <<Ev("KeyPressed", 0, 17, 0, ""), Ev("KeyPressed", 0, 17, 0, "")>>,
   <<Ev("FrameStart", 0, 0, 2, "")>>,
   <<Ev("FrameStart", 0, 0, 1, ""), Ev("KeyPressed", 0, 37, 0, "")>>,
   <<Ev("KeyPressed", 0, 35, 0, ""), Ev("KeyPressed", 0, 31, 0, ""),
     Ev("KeyPressed", 0, 23, 0, ""), Ev("KeyReleased", 0, 17, 0, "")>>}

GameEvents ==
  {<<>>,
   <<GameEv("EnemySpawned", 1, 1, "Slime", 0, 0, <<>>)>>,
   <<GameEv("EnemySpawned", 2, 2, "Skeleton", 0, 0, <<>>)>>,
   <<GameEv("EnemyDamaged", 0, 1, "", 0, 0, <<>>)>>,
   <<GameEv("EnemyDamaged", 0, 2, "", 25, 0, <<>>)>>,
   <<GameEv("EnemyDied", 0, 1, "Slime", 0, 0, <<>>)>>,
   <<GameEv("EnemyDied", 0, 2, "Skeleton", 0, 0, <<>>)>>,
   <<GameEv("EnemyDied", 0, 1, "Slime", 0, 0, <<>>),
     GameEv("EnemyDied", 0, 1, "Slime", 0, 0, <<>>)>>,
   <<GameEv("EnemyDied", 0, 3, "Slime", 0, 0, <<>>)>>,
   <<GameEv("WaveStarted", 0, 0, "", 1, 0, <<>>),
     GameEv("PlayerScoreChanged", 0, 0, "", 10, 0, <<>>)>>}

\* What a frame brings: engine events, game events, or both.
FrameEvents ==
  {<<engine_events, <<>>>> : engine_events \in EngineEvents}
  \cup {<<<<>>, game_events>> : game_events \in GameEvents}
  \cup {<<<<Ev("KeyPressed", 0, 17, 0, "")>>,
           <<GameEv("EnemyDied", 0, 1, "Slime", 0, 0, <<>>)>>>>,
         <<<<Ev("FrameStart", 0, 0, 2, ""), Ev("KeyPressed", 0, 17, 0, "")>>,
           <<GameEv("EnemySpawned", 1, 1, "Slime", 0, 0, <<>>),
             GameEv("EnemyDied", 0, 3, "Slime", 0, 0, <<>>)>>>>}

\* The orders in which a map of the enemies 1..MaxAlive may iterate.
EnemyOrders ==
  {order \in [1..MaxAlive -> 1..MaxAlive] : \A i, j \in 1..MaxAlive : order[i] = order[j] => i = j}

NextWaves ==
  \/ GamePluginOnInit
  \/ \E events \in FrameEvents, order \in EnemyOrders :
       GamePluginOnFrame(events[1], events[2], order)

SpecWaves == Init /\ [][NextWaves]_vars

(***************************************************************************)
(* C1.  Every id returned by register_entity resolves, through get_entity, *)
(* to the entity it was registered for, in every state reached by          *)
(* register, unregister, GC and command operations, as long as             *)
(* unregister_entity was not called on it (directly, by DespawnEntity or   *)
(* by a GC pass).                                                          *)
(***************************************************************************)
C1_LookupReturnsRegistered ==
  \A p \in hist.live : get_entity(Runtime, p[1]) = p[2]

\* An id survives a GC pass that removed another id, and a later command.
C1_Witness ==
  /\ hist.live # {}
  /\ Len(hist.issued) > Cardinality(DOMAIN entity_map)
  /\ hist.frame_calls = CLEANUP_INTERVAL_FRAMES
  /\ call.op = "process_commands"

(***************************************************************************)
(* C2.  entity_map and reverse_entity_map are inverses of each other, so a *)
(* host entity has at most one id; register_entity on a mapped entity      *)
(* returns the existing id and allocates nothing.                          *)
(***************************************************************************)
C2_MapsAreInverses ==
  /\ \A id \in DOMAIN entity_map :
       /\ Has(reverse_entity_map, entity_map[id])
       /\ reverse_entity_map[entity_map[id]] = id
  /\ \A e \in DOMAIN reverse_entity_map :
       /\ Has(entity_map, reverse_entity_map[e])
       /\ entity_map[reverse_entity_map[e]] = e
  /\ (call.op = "register_entity" /\ call.was # None)
       => (call.id = call.was /\ call.allocated = 0)

\* register_entity was called on an entity that already had an id.
C2_Witness ==
  /\ call.op = "register_entity"
  /\ call.was # None
  /\ Cardinality(DOMAIN entity_map) = 2

(***************************************************************************)
(* C3.  Entity ids are never reissued: each id register_entity allocates   *)
(* is greater than every id allocated before it.                           *)
(***************************************************************************)
C3_IdsStrictlyIncrease ==
  \A i, j \in 1..Len(hist.issued) : i < j => hist.issued[i] < hist.issued[j]

\* An id is allocated after an earlier id was unregistered.
C3_Witness ==
  /\ Len(hist.issued) = 2
  /\ call.op = "register_entity"
  /\ call.allocated = 1
  /\ DOMAIN entity_map = {2}

(***************************************************************************)
(* C4.  A GC pass removes exactly the ids whose entity has neither a local *)
(* nor a global transform: right after the pass the table is the table     *)
(* before it restricted to the ids of valid entities.                      *)
(***************************************************************************)
C4_GcRemovesExactlyStale ==
  last_gc.ran =>
    LET w == last_gc.world
        kept == {id \in DOMAIN last_gc.before :
                   \/ last_gc.before[id] \in DOMAIN w.local
                   \/ last_gc.before[id] \in w.global}
    IN last_gc.after = [id \in kept |-> last_gc.before[id]]

\* A pass that removed an id and kept another.
C4_Witness ==
  /\ last_gc.ran
  /\ DOMAIN last_gc.after # {}
  /\ DOMAIN last_gc.after # DOMAIN last_gc.before

(***************************************************************************)
(* C5.  The GC pass runs on the run_frame calls number 60, 120, ... and on *)
(* no other call; frames_since_cleanup is in 0..59 after every run_frame;  *)
(* an id whose entity was destroyed out-of-band is gone from the table     *)
(* after at most CLEANUP_INTERVAL_FRAMES further run_frame calls.          *)
(***************************************************************************)
C5_GcEverySixtiethFrame ==
  /\ frames_since_cleanup \in 0..(CLEANUP_INTERVAL_FRAMES - 1)
  /\ frames_since_cleanup = hist.frame_calls % CLEANUP_INTERVAL_FRAMES
  /\ call.op = "run_frame" =>
       (last_gc.ran <=> hist.frame_calls % CLEANUP_INTERVAL_FRAMES = 0)
  /\ \A id \in DOMAIN hist.stale : hist.stale[id] < CLEANUP_INTERVAL_FRAMES

\* The second pass, at call 120, removes an id that went stale after the
\* first pass.
C5_Witness ==
  /\ call.op = "run_frame"
  /\ hist.frame_calls = 2 * CLEANUP_INTERVAL_FRAMES
  /\ last_gc.ran
  /\ DOMAIN last_gc.before = {2}
  /\ DOMAIN last_gc.after = {}

(***************************************************************************)
(* C6.  After any sequence of successful and failed loads, no two loaded   *)
(* plugins share an id, no id is used again (ids grow along the plugin     *)
(* list and stay below the next id), and plugin_id_to_index maps the id of *)
(* each loaded plugin, and nothing else, to that plugin's index.           *)
(***************************************************************************)
C6_PluginIdsUniqueAndIndexed ==
  /\ \A i \in 1..Len(plugins) :
       /\ get_plugin_by_id(Runtime, plugins[i].id) = i
       /\ plugins[i].id < next_plugin_id
       /\ \A j \in 1..Len(plugins) : i < j => plugins[i].id < plugins[j].id
  /\ DOMAIN plugin_id_to_index = {plugins[i].id : i \in 1..Len(plugins)}

\* A load that failed for one file and succeeded for the next, after
\* earlier loads.
C6_Witness ==
  /\ Len(plugins) = MaxLoaded
  /\ Len(trace) = 2
  /\ trace[1].res = "failed"
  /\ trace[2].res = "ok"
  /\ trace[2].plugin = plugins[MaxLoaded].id

(***************************************************************************)
(* C7.  Every run_frame call performs its steps in this order: (1) drain   *)
(* the async channel and dispatch the resulting events, (2) GC check,      *)
(* (3) flush the queued input events, (4) broadcast FrameStart,            *)
(* (5) broadcast MouseMoved, only if the mouse position differs from the   *)
(* last recorded one, (6) call on_frame on every plugin that exports it,   *)
(* (7) process the collected commands; each step is complete, for all      *)
(* plugins, before the next one starts.                                    *)
(***************************************************************************)
C7_FrameStepsInOrder ==
  call.op = "run_frame" =>
    LET Step(e) == CASE e.fn = "process_async_results" -> 1
                     [] e.fn = "cleanup_stale_entities" -> 2
                     [] e.fn = "flush_pending_input_events" -> 3
                     [] e.fn = "run_frame" /\ e.ev.type = "FrameStart" -> 4
                     [] e.fn = "run_frame" /\ e.ev.type = "MouseMoved" -> 5
                     [] e.fn = "collect_frame_commands" -> 6
                     [] e.fn = "process_commands" -> 7
                     [] OTHER -> 0
        steps == SelectSeq(trace, LAMBDA e : Step(e) # 0)
        Of(n) == SelectSeq(trace, LAMBDA e : Step(e) = n)
        PluginsOf(n) == [k \in 1..Len(Of(n)) |-> Of(n)[k].plugin]
        ids == [i \in 1..Len(plugins) |-> plugins[i].id]
        framed == SelectSeq(plugins, LAMBDA p : p.on_frame)
    IN /\ \A i, j \in 1..Len(steps) : i < j => Step(steps[i]) <= Step(steps[j])
       /\ Len(Of(1)) = 1 + call.channel
       /\ Len(Of(2)) = 1
       /\ Len(Of(3)) = Len(call.queued) * Len(plugins)
       /\ PluginsOf(4) = ids
       /\ PluginsOf(5) = IF call.moved THEN ids ELSE <<>>
       /\ PluginsOf(6) = [k \in 1..Len(framed) |-> framed[k].id]
       /\ Len(SelectSeq(Of(7), LAMBDA e : e.k = "process")) > 0
            => Len(framed) > 0

\* A frame in which all seven steps had something to do.
C7_Witness ==
  /\ call.op = "run_frame"
  /\ call.channel = 1
  /\ call.moved
  /\ Len(call.queued) = 1
  /\ Len(plugins) = 2
  /\ \E a \in 1..Len(trace) : trace[a].k = "process"

(***************************************************************************)
(* C8.  After run_frame returns, every input event queued before the call  *)
(* has been sent exactly once to every loaded plugin, before that plugin's *)
(* on_frame of the frame, and the pending input queue is empty.            *)
(* plugin_receive_event is called with the event only on a plugin that     *)
(* exports plugin_alloc, memory and plugin_receive_event; for any other    *)
(* plugin the event is dropped.                                            *)
(***************************************************************************)
C8_InputSentOnceToEveryPlugin ==
  call.op = "run_frame" =>
    /\ pending_input_events = <<>>
    /\ \A i \in 1..Len(plugins) :
         LET p == plugins[i]
             Sent(ev) == {a \in 1..Len(trace) :
                            /\ trace[a].fn = "flush_pending_input_events"
                            /\ trace[a].k = "send"
                            /\ trace[a].plugin = p.id
                            /\ trace[a].ev = ev}
             Queued(ev) == {k \in 1..Len(call.queued) : call.queued[k] = ev}
         IN /\ \A k \in 1..Len(call.queued) :
                 /\ Cardinality(Sent(call.queued[k])) = Cardinality(Queued(call.queued[k]))
                 /\ \A a \in Sent(call.queued[k]) :
                      /\ trace[a].res \in {"received", "recv_trap"}
                           => (p.alloc /\ p.memory /\ p.receive)
                      /\ \A b \in 1..Len(trace) :
                           (trace[b].k = "on_frame" /\ trace[b].plugin = p.id) => a < b

\* Two queued events, flushed to two plugins: one receives them, for the
\* other they are dropped.
C8_Witness ==
  /\ call.op = "run_frame"
  /\ Len(call.queued) = 2
  /\ Len(plugins) = 2
  /\ \E a, b \in 1..Len(trace) :
       /\ trace[a].fn = "flush_pending_input_events"
       /\ trace[b].fn = "flush_pending_input_events"
       /\ trace[a].res = "received"
       /\ trace[b].res = "no_alloc"

\* C8 as stated: every queued event is delivered (plugin_receive_event is
\* called with it) exactly once to every loaded plugin before its on_frame,
\* and the queue is empty.
C8_InputDeliveredToEveryPlugin ==
  call.op = "run_frame" =>
    /\ pending_input_events = <<>>
    /\ \A i \in 1..Len(plugins) :
         LET p == plugins[i]
             Received(ev) == {a \in 1..Len(trace) :
                                /\ trace[a].fn = "flush_pending_input_events"
                                /\ trace[a].plugin = p.id
                                /\ trace[a].ev = ev
                                /\ trace[a].res \in {"received", "recv_trap"}}
             Queued(ev) == {k \in 1..Len(call.queued) : call.queued[k] = ev}
         IN \A k \in 1..Len(call.queued) :
              /\ Cardinality(Received(call.queued[k])) = Cardinality(Queued(call.queued[k]))
              /\ \A a \in Received(call.queued[k]) :
                   \A b \in 1..Len(trace) :
                     (trace[b].k = "on_frame" /\ trace[b].plugin = p.id) => a < b

(***************************************************************************)
(* C9.  The queued input events are sent to each plugin in the order in    *)
(* which they were queued, all of them before the FrameStart event of the  *)
(* same frame.                                                             *)
(***************************************************************************)
C9_InputInQueueOrderBeforeFrameStart ==
  call.op = "run_frame" =>
    /\ \A i \in 1..Len(plugins) :
         LET flushed == SelectSeq(trace, LAMBDA e :
                          e.fn = "flush_pending_input_events" /\ e.plugin = plugins[i].id)
         IN [k \in 1..Len(flushed) |-> flushed[k].ev] = call.queued
    /\ \A a, b \in 1..Len(trace) :
         (trace[a].fn = "flush_pending_input_events" /\ trace[b].ev.type = "FrameStart")
           => a < b

\* Two different events were queued and flushed to two plugins.
C9_Witness ==
  /\ call.op = "run_frame"
  /\ Len(call.queued) = 2
  /\ call.queued[1] # call.queued[2]
  /\ Len(plugins) = 2
  /\ \E a \in 1..Len(trace) : trace[a].ev.type = "FrameStart"

(***************************************************************************)
(* C10.  Within one run_frame no command is processed until on_frame has   *)
(* returned or trapped for every plugin that exports it; the collected     *)
(* commands are then processed in ascending plugin-id order and, for one   *)
(* plugin, in the order in which the plugin emitted them.                  *)
(***************************************************************************)
C10_CommandsAfterFramesInOrder ==
  call.op = "run_frame" =>
    LET processed == SelectSeq(trace, LAMBDA e : e.k = "process")
    IN /\ \A a, b \in 1..Len(trace) :
            (trace[a].k = "on_frame" /\ trace[b].fn = "process_commands") => a < b
       /\ \A i, j \in 1..Len(processed) :
            i < j => processed[i].plugin <= processed[j].plugin
       /\ \A i \in 1..Len(plugins) :
            LET p == plugins[i]
                mine == SelectSeq(processed, LAMBDA e : e.plugin = p.id)
                returned == {b \in 1..Len(trace) :
                               trace[b].k = "on_frame" /\ trace[b].plugin = p.id}
                emitted == {a \in 1..Len(trace) :
                              /\ trace[a].k = "push"
                              /\ trace[a].plugin = p.id
                              /\ \E b \in returned : a < b}
                at == SelectSeq([a \in 1..Len(trace) |-> a], LAMBDA a : a \in emitted)
                pushed == [k \in 1..Len(at) |-> trace[at[k]].cmd]
            IN [k \in 1..Len(mine) |-> mine[k].cmd] =
                 IF p.on_frame THEN call.pending[i] \o pushed ELSE <<>>

\* Two plugins have their commands processed; the first one's start with a
\* command it emitted before the frame, then one emitted on a key press.
C10_Witness ==
  /\ call.op = "run_frame"
  /\ Len(plugins) = 2
  /\ Len(call.pending[1]) = 1
  /\ LET processed == SelectSeq(trace, LAMBDA e : e.k = "process")
     IN /\ Len(processed) >= 5
        /\ processed[1].plugin = plugins[1].id
        /\ processed[Len(processed)].plugin = plugins[2].id
        /\ \E a \in 1..Len(trace) :
             trace[a].k = "push" /\ trace[a].fn = "host_send_command"
             /\ trace[a + 1].fn = "flush_pending_input_events"

(***************************************************************************)
(* C11.  In every run_frame call, the events produced by steps (1) to (5)  *)
(* (replies made from async results, queued input, FrameStart and          *)
(* MouseMoved) are sent before the first on_frame call of the frame, and   *)
(* the replies to the commands the frame processes (EntitySpawned,         *)
(* Entity* / EntityNotFound, error replies of rejected paths) are sent     *)
(* during process_commands, after the last on_frame call of the frame.     *)
(***************************************************************************)
C11_OnlyCommandRepliesAfterOnFrame ==
  call.op = "run_frame" =>
    LET frames == {f \in 1..Len(trace) : trace[f].k = "on_frame"}
        sends == {k \in 1..Len(trace) : trace[k].k \in {"send", "drop"}}
    IN \A k \in sends :
         IF trace[k].fn = "process_commands"
         THEN \A f \in frames : f < k
         ELSE \A f \in frames : k < f

\* A frame with an async reply, an input event, FrameStart and MouseMoved
\* before the first on_frame, and a reply to a command after the last one.
C11_Witness ==
  /\ call.op = "run_frame"
  /\ \E a \in 1..Len(trace) :
       /\ trace[a].k = "send" /\ trace[a].fn = "process_async_results"
       /\ \E b \in a + 1..Len(trace) :
            /\ trace[b].k = "send" /\ trace[b].fn = "flush_pending_input_events"
            /\ \E c \in b + 1..Len(trace) :
                 /\ trace[c].k = "send" /\ trace[c].ev.type = "FrameStart"
                 /\ \E d \in c + 1..Len(trace) :
                      /\ trace[d].k = "send" /\ trace[d].ev.type = "MouseMoved"
                      /\ \E f \in d + 1..Len(trace) :
                           /\ trace[f].k = "on_frame"
                           /\ \E r \in f + 1..Len(trace) :
                                /\ trace[r].k = "send"
                                /\ trace[r].fn = "process_commands"
                                /\ trace[r].ev.type = "EntitySpawned"
                                /\ trace[r].res = "received"

\* C11 as stated: every event handed to a plugin during a run_frame call,
\* replies to commands included, precedes the first on_frame of the call.
C11_AllEventsBeforeOnFrame ==
  call.op = "run_frame" =>
    \A k, f \in 1..Len(trace) :
      (/\ trace[k].k = "send"
       /\ trace[k].res \in {"received", "recv_trap"}
       /\ trace[f].k = "on_frame") => k < f

(***************************************************************************)
(* C12.  A trap in on_frame neither removes nor disables the plugin: every *)
(* run_frame call, whatever trapped in it or in the calls before it, calls *)
(* on_frame once on each loaded plugin that exports it, in load order, and *)
(* a plugin whose on_frame trapped is still loaded and found by its id.    *)
(***************************************************************************)
C12_TrapDoesNotDisablePlugin ==
  call.op = "run_frame" =>
    LET framed == SelectSeq(plugins, LAMBDA p : p.on_frame)
        called == SelectSeq(trace, LAMBDA e : e.k = "on_frame")
    IN /\ [k \in 1..Len(called) |-> called[k].plugin]
            = [k \in 1..Len(framed) |-> framed[k].id]
       /\ \A p \in DOMAIN hist.traps :
            /\ get_plugin_by_id(Runtime, p) # None
            /\ plugins[get_plugin_by_id(Runtime, p)].id = p
            /\ plugins[get_plugin_by_id(Runtime, p)].on_frame

\* The first plugin traps in on_frame for the second frame in a row, and
\* on_frame of the plugin after it is still called.
C12_Witness ==
  /\ call.op = "run_frame"
  /\ \E p \in DOMAIN hist.traps : hist.traps[p] >= 2
  /\ \E a, b \in 1..Len(trace) :
       /\ a < b
       /\ trace[a].k = "on_frame" /\ trace[a].res = "trap"
       /\ trace[a].plugin \in DOMAIN hist.traps
       /\ hist.traps[trace[a].plugin] >= 2
       /\ trace[b].k = "on_frame" /\ trace[b].plugin # trace[a].plugin

(***************************************************************************)
(* C13.  run_frame completes whatever fails in it: with on_frame and       *)
(* receive traps, undecodable buffers, buffers out of bounds, unknown      *)
(* entity and texture ids, rejected paths and failed asset results, the    *)
(* call still drains the async channel and answers each result, empties    *)
(* the input queue, sends FrameStart to every plugin, calls on_frame on    *)
(* every plugin that exports it and processes every command they had       *)
(* emitted; and run_frame can be called again on the state it leaves.      *)
(* This holds provided each guest call returns: a guest call in which      *)
(* host_send_command panics (C33) does not, and the frame ends there.      *)
(***************************************************************************)
C13_FrameAlwaysCompletes ==
  (call.op = "run_frame" /\ ~panicked) =>
    LET ids == [i \in 1..Len(plugins) |-> plugins[i].id]
        framed == SelectSeq(plugins, LAMBDA p : p.on_frame)
        called == SelectSeq(trace, LAMBDA e : e.k = "on_frame")
        started == SelectSeq(trace, LAMBDA e : e.ev.type = "FrameStart")
        answered == SelectSeq(trace, LAMBDA e : e.fn = "process_async_results"
                                                /\ e.k \in {"send", "drop"})
        processed == SelectSeq(trace, LAMBDA e : e.k = "process")
        Emitted(i) == Cardinality({a \in 1..Len(trace) :
                        /\ trace[a].k = "push"
                        /\ trace[a].plugin = plugins[i].id
                        /\ \E b \in a + 1..Len(trace) :
                             trace[b].k = "on_frame" /\ trace[b].plugin = plugins[i].id})
        Owed(i) == IF plugins[i].on_frame THEN Len(call.pending[i]) + Emitted(i) ELSE 0
        Mine(i) == Len(SelectSeq(processed, LAMBDA e : e.plugin = plugins[i].id))
        again == run_systems(CallFrom(Runtime, "run_frame", [p \in Range(ids) |-> Idle]), <<>>)
    IN /\ async_channel = <<>>
       /\ Len(answered) = call.channel
       /\ pending_input_events = <<>>
       /\ [k \in 1..Len(started) |-> started[k].plugin] = ids
       /\ [k \in 1..Len(called) |-> called[k].plugin]
            = [k \in 1..Len(framed) |-> framed[k].id]
       /\ \A i \in 1..Len(plugins) : Mine(i) = Owed(i)
       /\ again.call.op = "run_frame"
       /\ again.hist.frame_calls = hist.frame_calls + 1
       /\ Len(SelectSeq(again.trace, LAMBDA e : e.k = "on_frame")) = Len(framed)

\* A frame that answers a failed file read to a plugin that traps when it
\* receives, whose on_frame sends an undecodable buffer, then commands on
\* an unknown entity, a rejected path and an unknown texture, then traps;
\* the commands of both plugins are processed to the last one.
C13_Witness ==
  /\ call.op = "run_frame"
  /\ hist.frame_calls = 2
  /\ \E a \in 1..Len(trace) :
       /\ trace[a].fn = "process_async_results" /\ trace[a].ev.type = "FileError"
       /\ trace[a].res = "recv_trap"
  /\ \E a \in 1..Len(trace) : trace[a].k = "discard"
  /\ \E a \in 1..Len(trace) : trace[a].k = "on_frame" /\ trace[a].res = "trap"
  /\ \E a \in 1..Len(trace) : trace[a].k = "warn" /\ trace[a].res = "invalid entity"
  /\ \E a \in 1..Len(trace) : trace[a].k = "warn" /\ trace[a].res = "invalid path"
  /\ \E a \in 1..Len(trace) :
       /\ trace[a].k = "warn" /\ trace[a].cmd.type = "SetEntityMaterial"
  /\ trace[Len(trace)].ev.type = "EntityNotFound"
  /\ trace[Len(trace)].plugin = plugins[2].id

(***************************************************************************)
(* C14.  In a broadcast (queued input, FrameStart) each loaded plugin is   *)
(* sent the event exactly once, in load order, and the outcome for a       *)
(* plugin depends on that plugin alone: a plugin with all the exports      *)
(* whose guest does not fail receives it, whatever failed for the plugin   *)
(* before it, and a plugin that fails at any step (no plugin_alloc, alloc  *)
(* trap, no memory, out-of-bounds write, no plugin_receive_event, receive  *)
(* trap) does not.  The failure changes nothing else: every field of the   *)
(* runtime and of the world other than the plugins, and every plugin that  *)
(* received, end the frame as in the frame in which no delivery fails.     *)
(***************************************************************************)
C14_DeliveryFailureIsLocal ==
  [][call'.op = "run_frame" =>
       LET n == Len(plugins')
           ids == [i \in 1..n |-> plugins'[i].id]
           events == call'.queued \o <<Ev("FrameStart", 0, world.frame_counter, 0, "")>>
           sent == SelectSeq(trace', LAMBDA e :
                     e.k \in {"send", "drop"}
                     /\ e.fn \in {"flush_pending_input_events", "run_frame"}
                     /\ e.ev.type # "MouseMoved")
           Healthy(i) == /\ plugins'[i].alloc /\ plugins'[i].memory /\ plugins'[i].receive
                         /\ call'.deliver[ids[i]] = "ok"
           sound == run_systems(CallFrom(Runtime, "run_frame",
                                         [p \in DOMAIN call'.deliver |-> Listener("ok")]),
                                <<>>)
       IN /\ Len(sent) = Len(events) * n
          /\ \A j \in 1..Len(events), i \in 1..n :
               LET e == sent[(j - 1) * n + i]
               IN /\ e.k = "send"
                  /\ e.ev = events[j]
                  /\ e.plugin = ids[i]
                  /\ Healthy(i) <=> e.res = "received"
          /\ \A i \in 1..n : Healthy(i) => plugins'[i] = sound.plugins[i]
          /\ plugin_id_to_index' = sound.plugin_id_to_index
          /\ entity_map' = sound.entity_map
          /\ reverse_entity_map' = sound.reverse_entity_map
          /\ texture_id_to_name' = sound.texture_id_to_name
          /\ async_channel' = sound.async_channel
          /\ workers' = sound.workers
          /\ pending_input_events' = sound.pending_input_events
          /\ last_mouse_position' = sound.last_mouse_position
          /\ next_entity_id' = sound.next_entity_id
          /\ next_texture_id' = sound.next_texture_id
          /\ next_plugin_id' = sound.next_plugin_id
          /\ frames_since_cleanup' = sound.frames_since_cleanup
          /\ world' = sound.world]_vars

\* Two key releases are broadcast; plugin_alloc of the first plugin traps
\* on each, the second plugin receives both and the command it sent for
\* each is processed.
C14_Witness ==
  /\ call.op = "run_frame"
  /\ Len(call.queued) = 2
  /\ Len(plugins) = 2
  /\ Cardinality({a \in 1..Len(trace) : trace[a].k = "process"}) = 2
  /\ \A a \in 1..Len(trace) :
       trace[a].k = "process" => trace[a].plugin = plugins[2].id
  /\ \A a \in 1..Len(trace) :
       (trace[a].k = "send" /\ trace[a].ev.type = "KeyReleased") =>
         IF trace[a].plugin = plugins[1].id
         THEN trace[a].res = "alloc_trap"
         ELSE trace[a].res = "received"
  /\ Cardinality({a \in 1..Len(trace) :
                    trace[a].k = "send" /\ trace[a].ev.type = "KeyReleased"}) = 4

(***************************************************************************)
(* C15.  Every reply event (EntitySpawned, EntityPosition / Scale /        *)
(* Rotation, EntityNotFound, FileLoaded, FileError, TextureLoaded,         *)
(* PrefabLoaded, AssetError) is sent to one plugin only, and that plugin   *)
(* has had a command processed that the event answers, with the request id *)
(* the event carries; this holds for the replies made while the command is *)
(* processed and for those made later from the result of a worker.         *)
(***************************************************************************)
C15_RepliesGoToTheRequester ==
  LET RepliesTo(type) ==
        CASE type = "SpawnPrimitive" -> {"EntitySpawned"}
          [] type = "GetEntityPosition" -> {"EntityPosition", "EntityNotFound"}
          [] type = "GetEntityScale" -> {"EntityScale", "EntityNotFound"}
          [] type = "GetEntityRotation" -> {"EntityRotation", "EntityNotFound"}
          [] type = "ReadFile" -> {"FileLoaded", "FileError"}
          [] type = "LoadTexture" -> {"TextureLoaded", "AssetError"}
          [] type = "LoadPrefab" -> {"PrefabLoaded", "AssetError"}
      Replies == UNION {RepliesTo(type) : type \in Requests}
      replies == {a \in 1..Len(trace) :
                    trace[a].k \in {"send", "drop"} /\ trace[a].ev.type \in Replies}
  IN /\ \A a \in replies :
          \E q \in hist.asked :
            /\ q[1] = trace[a].plugin
            /\ q[2] = trace[a].ev.request_id
            /\ trace[a].ev.type \in RepliesTo(q[3])
     /\ \A a, b \in replies :
          trace[a].ev = trace[b].ev => trace[a].plugin = trace[b].plugin

\* In one frame the second plugin receives FileLoaded for the file it asked
\* for in the frame before, and the first plugin EntitySpawned for the
\* primitive it spawns; each with the request id of the plugin.
C15_Witness ==
  /\ call.op = "run_frame"
  /\ Len(plugins) = 2
  /\ \E a \in 1..Len(trace) :
       /\ trace[a].fn = "process_async_results" /\ trace[a].k = "send"
       /\ trace[a].ev.type = "FileLoaded" /\ trace[a].ev.request_id = 8
       /\ trace[a].plugin = plugins[2].id /\ trace[a].res = "received"
       /\ \E b \in a + 1..Len(trace) :
            /\ trace[b].fn = "process_commands" /\ trace[b].k = "send"
            /\ trace[b].ev.type = "EntitySpawned" /\ trace[b].ev.request_id = 7
            /\ trace[b].plugin = plugins[1].id /\ trace[b].res = "received"

(***************************************************************************)
(* C16.  A SetEntityMaterial command that fails (unknown entity id,        *)
(* unknown texture id, or entity without a material) is answered by a      *)
(* warning only: no event is sent to any plugin for it, and the material   *)
(* of every entity stays as it was.  A command that succeeds sets the base *)
(* texture of the entity, with no warning and no event.                    *)
(***************************************************************************)
C16_MaterialFailureOnlyWarns ==
  [][call'.op = "run_frame" =>
       LET last == Len(trace')
           material == {a \in 1..last : /\ trace'[a].k = "process"
                                         /\ trace'[a].cmd.type = "SetEntityMaterial"}
           Fails(c) == ~(/\ Has(entity_map', c.entity_id)
                         /\ Has(texture_id_to_name', c.x)
                         /\ Has(world'.material, entity_map'[c.entity_id]))
       IN /\ \A a \in material :
               IF Fails(trace'[a].cmd)
               THEN /\ a < last
                    /\ trace'[a + 1].k = "warn"
                    /\ trace'[a + 1].plugin = trace'[a].plugin
                    /\ trace'[a + 1].cmd = trace'[a].cmd
                    /\ a + 1 < last => trace'[a + 2].k = "process"
               ELSE /\ a < last => trace'[a + 1].k = "process"
                    /\ world'.material[entity_map'[trace'[a].cmd.entity_id]]
                         = texture_id_to_name'[trace'[a].cmd.x]
          /\ (\A a \in material : Fails(trace'[a].cmd)) =>
               \A e \in DOMAIN world.material :
                 /\ Has(world'.material, e)
                 /\ world'.material[e] = world.material[e]]_vars

\* The texture is loaded and the prefab is spawned; the material is set on
\* the prefab's entity, which has none: a warning and nothing after it.
C16_Witness ==
  /\ call.op = "run_frame"
  /\ Has(texture_id_to_name, 1)
  /\ Has(entity_map, 1)
  /\ Len(trace) > 1
  /\ trace[Len(trace)].k = "warn"
  /\ trace[Len(trace)].res = "no material"
  /\ trace[Len(trace) - 1].k = "process"
  /\ trace[Len(trace) - 1].cmd = SetMaterial(1, 1)

\* C16 as stated: a SetEntityMaterial command that fails is answered by an
\* event sent to the plugin that issued it.
C16_MaterialFailureReplies ==
  call.op = "run_frame" =>
    \A a \in 1..Len(trace) :
      (/\ trace[a].k = "process"
       /\ trace[a].cmd.type = "SetEntityMaterial"
       /\ ~(/\ Has(entity_map, trace[a].cmd.entity_id)
             /\ Has(texture_id_to_name, trace[a].cmd.x)
             /\ Has(world.material, entity_map[trace[a].cmd.entity_id])))
      => \E b \in a + 1..Len(trace) :
           /\ trace[b].k = "send"
           /\ trace[b].fn = "process_commands"
           /\ trace[b].plugin = trace[a].plugin

(***************************************************************************)
(* C17.  Each SpawnPrimitive and each GetEntityPosition / Scale / Rotation *)
(* command processed is answered, before the next command is processed, by *)
(* exactly one event sent to the plugin that issued it, with the request   *)
(* id of the command.  SpawnPrimitive allocates one new id, maps it to the *)
(* entity just spawned and replies EntitySpawned with that id.  A Get      *)
(* replies with the component event, carrying the entity id and the value  *)
(* of the component, if the id is in the table and its entity has a local  *)
(* transform, and with EntityNotFound{request_id, entity_id} otherwise.    *)
(* (Of a call that returns: the host does not panic in it.)                *)
(***************************************************************************)
C17_SpawnAndGetReplyOnce ==
  [][(call'.op \in {"initialize", "run_frame"} /\ ~panicked') =>
       LET last == Len(trace')
           Gets == {"GetEntityPosition", "GetEntityScale", "GetEntityRotation"}
           spawns == {a \in 1..last : /\ trace'[a].k = "process"
                                       /\ trace'[a].cmd.type = "SpawnPrimitive"}
           gets == {a \in 1..last : /\ trace'[a].k = "process"
                                     /\ trace'[a].cmd.type \in Gets}
           prefabs == {a \in 1..last : /\ trace'[a].k \in {"send", "drop"}
                                        /\ trace'[a].ev.type = "PrefabLoaded"}
           despawned == {a \in 1..last :
                           /\ trace'[a].k = "process"
                           /\ trace'[a].cmd.type = "DespawnEntity"
                           /\ (a = last \/ trace'[a + 1].k # "warn")}
           OneReply(a) == /\ a < last
                          /\ trace'[a + 1].k = "send"
                          /\ trace'[a + 1].fn = "process_commands"
                          /\ trace'[a + 1].plugin = trace'[a].plugin
                          /\ trace'[a + 1].ev.request_id = trace'[a].cmd.request_id
                          /\ a + 1 < last => trace'[a + 2].k = "process"
           Component(type) == CASE type = "GetEntityPosition" -> "EntityPosition"
                                [] type = "GetEntityScale" -> "EntityScale"
                                [] type = "GetEntityRotation" -> "EntityRotation"
           Value(type, tr) == CASE type = "GetEntityPosition" -> tr.translation
                                [] type = "GetEntityScale" -> tr.scale
                                [] type = "GetEntityRotation" -> tr.rotation
       IN /\ \A a \in spawns :
               /\ OneReply(a)
               /\ trace'[a + 1].ev.type = "EntitySpawned"
               /\ trace'[a + 1].ev.id >= next_entity_id
               /\ trace'[a + 1].ev.id < next_entity_id'
               /\ Has(entity_map', trace'[a + 1].ev.id) =>
                    /\ entity_map'[trace'[a + 1].ev.id] >= world.next_entity
                    /\ entity_map'[trace'[a + 1].ev.id] < world'.next_entity
          /\ \A a, b \in spawns : a # b => trace'[a + 1].ev.id # trace'[b + 1].ev.id
          /\ Len(hist'.issued) = Len(hist.issued) + Cardinality(spawns) + Cardinality(prefabs)
          /\ ~last_gc'.ran =>
               Cardinality(DOMAIN entity_map') =
                 Cardinality(DOMAIN entity_map) + Cardinality(spawns)
                 + Cardinality(prefabs) - Cardinality(despawned)
          /\ \A a \in gets :
               LET c == trace'[a].cmd
               IN /\ OneReply(a)
                  /\ trace'[a + 1].ev.id = c.entity_id
                  /\ IF c.entity_id \in trace'[a].ids
                     THEN /\ trace'[a + 1].ev.type = Component(c.type)
                          /\ Has(entity_map', c.entity_id) =>
                               trace'[a + 1].ev.x =
                                 Value(c.type, world'.local[entity_map'[c.entity_id]])
                     ELSE /\ trace'[a + 1].ev.type = "EntityNotFound"
                          /\ trace'[a + 1].ev.x = 0]_vars

\* The first plugin spawns a primitive and receives EntitySpawned with the
\* new id 1, the only entry of the table; the second plugin then asks for
\* the position of id 1 and receives it.
C17_Witness ==
  /\ call.op = "run_frame"
  /\ hist.frame_calls = 1
  /\ DOMAIN entity_map = {1}
  /\ \E a \in 1..Len(trace) - 3 :
       /\ trace[a].k = "process" /\ trace[a].cmd = Spawn(7)
       /\ trace[a + 1].k = "send" /\ trace[a + 1].ev = Ev("EntitySpawned", 7, 1, 0, "")
       /\ trace[a + 1].plugin = plugins[1].id /\ trace[a + 1].res = "received"
       /\ trace[a + 2].k = "process" /\ trace[a + 2].cmd = GetPosition(1, 8)
       /\ trace[a + 3].k = "send" /\ trace[a + 3].ev = Ev("EntityPosition", 8, 1, 1, "")
       /\ trace[a + 3].plugin = plugins[2].id /\ trace[a + 3].res = "received"
       /\ a + 3 = Len(trace)

(***************************************************************************)
(* C18.  A ReadFile, LoadTexture or LoadPrefab command whose path the      *)
(* sanitizer rejects is answered, before the next command is processed, by *)
(* a warning and exactly one event sent to the plugin that issued it:      *)
(* FileError for ReadFile, AssetError for the other two, with the request  *)
(* id of the command and the text "Invalid path: access denied".  No       *)
(* worker is started for it and no texture id is allocated: a call starts  *)
(* one worker for each command whose path is accepted, and allocates one   *)
(* texture id for each LoadTexture among them.  No worker and no posted    *)
(* result ever carries the request id of a rejected command.               *)
(***************************************************************************)
C18_RejectedPathRepliesOnce ==
  [][/\ LET Paths == {"ReadFile", "LoadTexture", "LoadPrefab"}
            refused == {c.request_id :
                          c \in {d \in PrimaryCommands(7) \cup SecondaryCommands(8) :
                                   d.type \in Paths /\ sanitize_path(d.path) = <<>>}}
        IN /\ \A j \in 1..Len(workers') : workers'[j].request_id \notin refused
           /\ \A j \in 1..Len(async_channel') : async_channel'[j].request_id \notin refused
     /\ call'.op \in {"initialize", "run_frame"} =>
          LET last == Len(trace')
              Paths == {"ReadFile", "LoadTexture", "LoadPrefab"}
              rejected == {a \in 1..last : /\ trace'[a].k = "process"
                                            /\ trace'[a].cmd.type \in Paths
                                            /\ sanitize_path(trace'[a].cmd.path) = <<>>}
              accepted == {a \in 1..last : /\ trace'[a].k = "process"
                                            /\ trace'[a].cmd.type \in Paths
                                            /\ sanitize_path(trace'[a].cmd.path) # <<>>}
              started == {a \in 1..last : trace'[a].k = "spawn_worker"}
          IN /\ \A a \in rejected :
                  /\ a + 2 <= last
                  /\ trace'[a + 1].k = "warn"
                  /\ trace'[a + 2].k = "send"
                  /\ trace'[a + 2].fn = "process_commands"
                  /\ trace'[a + 2].plugin = trace'[a].plugin
                  /\ trace'[a + 2].res \in {"received", "recv_trap"}
                  /\ trace'[a + 2].ev =
                       Ev(IF trace'[a].cmd.type = "ReadFile" THEN "FileError" ELSE "AssetError",
                          trace'[a].cmd.request_id, 0, 0, "Invalid path: access denied")
                  /\ a + 2 < last => trace'[a + 3].k = "process"
             /\ started = {a + 1 : a \in accepted}
             /\ Len(workers') = Len(workers) + Cardinality(accepted)
             /\ next_texture_id' = next_texture_id
                  + Cardinality({a \in accepted : trace'[a].cmd.type = "LoadTexture"})]_vars

\* In one frame the first plugin's ReadFile of a path with a parent-dir
\* component is refused with FileError, request id 17, and the second
\* plugin's ReadFile through a symbolic link inside the root starts the
\* only worker.
C18_Witness ==
  /\ call.op = "run_frame"
  /\ Len(workers) = 1
  /\ workers[1].request_id = 8
  /\ next_texture_id = 1
  /\ \E a \in 1..Len(trace) - 4 :
       /\ trace[a].k = "process"
       /\ trace[a].cmd = ReadFile(<<"..", "plugins", "logo.png">>, 17)
       /\ trace[a + 1].k = "warn"
       /\ trace[a + 2].k = "send"
       /\ trace[a + 2].ev = Ev("FileError", 17, 0, 0, "Invalid path: access denied")
       /\ trace[a + 2].plugin = plugins[1].id
       /\ trace[a + 2].res = "received"
       /\ trace[a + 3].k = "process"
       /\ trace[a + 4].k = "spawn_worker"
       /\ a + 4 = Len(trace)

(***************************************************************************)
(* C19.  sanitize_path(p) returns Some(q) if and only if p is not          *)
(* absolute, no component of p is a parent-dir, a root or a prefix, the    *)
(* base path joined with p exists and canonicalizes (symbolic links        *)
(* followed) to q, and the canonical base path is a prefix of q, component *)
(* by component; in every other case it returns None.                      *)
(***************************************************************************)
C19_SanitizeAcceptsExactlyInsideRoot ==
  call.op = "sanitize_path" =>
    LET p == call.arg
        joined == PluginsBasePath \o p
        relative == Len(p) = 0 \/ p[1] # "/"
        plain == Range(p) \cap {"..", "/", "C:"} = {}
        exists == joined \in DOMAIN Canonical
        Inside(q) == /\ Len(q) >= Len(CanonicalBasePath)
                     /\ \A i \in 1..Len(CanonicalBasePath) : q[i] = CanonicalBasePath[i]
    IN IF relative /\ plain /\ exists /\ Inside(Canonical[joined])
       THEN call.ret = Canonical[joined] /\ call.ret # <<>>
       ELSE call.ret = <<>>

\* A symbolic link inside the root that points to a file inside the root
\* is accepted, and resolved to the file.
C19_Witness ==
  /\ call.op = "sanitize_path"
  /\ call.arg = <<"sub", "link_in">> \/ call.arg = <<"link_in">>
  /\ call.ret = <<"/", "app", "plugins", "logo.png">>

(***************************************************************************)
(* C20.  Every path a worker thread is started with is the value           *)
(* sanitize_path returned for the path of the command that started the     *)
(* worker, never None, and has the canonical plugins root as a prefix;     *)
(* this holds when the path of the command goes through a symbolic link.   *)
(***************************************************************************)
C20_WorkersOnlyGetSanitizedPaths ==
  [][/\ \A j \in 1..Len(workers') :
          /\ workers'[j].safe_path # <<>>
          /\ StartsWith(workers'[j].safe_path, CanonicalBasePath)
     /\ call'.op \in {"initialize", "run_frame"} =>
          LET started == SelectSeq(trace', LAMBDA e : e.k = "spawn_worker")
          IN /\ Len(workers') = Len(workers) + Len(started)
             /\ \A k \in 1..Len(started) :
                  LET job == workers'[Len(workers) + k]
                  IN /\ job.safe_path = sanitize_path(started[k].cmd.path)
                     /\ job.plugin_id = started[k].plugin
                     /\ job.request_id = started[k].cmd.request_id]_vars

\* A texture is asked for through a symbolic link that points inside the
\* root: the worker is started with the file the link resolves to.
C20_Witness ==
  /\ call.op = "run_frame"
  /\ Len(workers) = 1
  /\ workers[1].kind = "Texture"
  /\ workers[1].texture_name = <<"link_in">>
  /\ workers[1].safe_path = <<"/", "app", "plugins", "logo.png">>
  /\ \E a \in 1..Len(trace) :
       trace[a].k = "spawn_worker" /\ trace[a].cmd = LoadTexture(<<"link_in">>, 7)

(***************************************************************************)
(* C21.  texture_id_to_name holds a texture id exactly if a successful     *)
(* texture result carrying the id was taken from the channel: a run_frame  *)
(* call adds the ids of the successful texture results that waited in the  *)
(* channel, each with the name its result carries, and no other step       *)
(* changes the table; a failed load adds nothing.  The name is the path    *)
(* the guest gave in the LoadTexture command, the id is one allocated for  *)
(* that command alone, the entry is in the table when TextureLoaded is     *)
(* sent, and an entry is never changed or removed.                         *)
(***************************************************************************)
C21_TextureTableRecordsSuccessfulLoads ==
  [][LET loaded == {k \in 1..Len(async_channel) :
                      /\ async_channel[k].kind = "Texture"
                      /\ async_channel[k].result = "ok"}
         started == SelectSeq(trace', LAMBDA e : e.k = "spawn_worker")
     IN /\ \A id \in DOMAIN texture_id_to_name :
             Has(texture_id_to_name', id) /\ texture_id_to_name'[id] = texture_id_to_name[id]
        /\ IF call'.op = "run_frame"
           THEN /\ DOMAIN texture_id_to_name' =
                     DOMAIN texture_id_to_name \cup {async_channel[k].texture_id : k \in loaded}
                /\ \A k \in loaded :
                     texture_id_to_name'[async_channel[k].texture_id]
                       = async_channel[k].texture_name
                /\ \A a \in 1..Len(trace') :
                     trace'[a].ev.type = "TextureLoaded" =>
                       /\ trace'[a].ev.id \in trace'[a].ids
                       /\ trace'[a].ev.id \in DOMAIN texture_id_to_name'
                /\ \A k \in 1..Len(started) :
                     started[k].cmd.type = "LoadTexture" =>
                       LET job == workers'[Len(workers) + k]
                       IN /\ job.texture_name = started[k].cmd.path
                          /\ job.texture_id >= next_texture_id
                          /\ job.texture_id < next_texture_id'
                          /\ \A j \in 1..Len(workers') :
                               workers'[j].texture_id = job.texture_id =>
                                 j = Len(workers) + k
           ELSE DOMAIN texture_id_to_name' = DOMAIN texture_id_to_name
        /\ call'.op = "worker_finish" =>
             LET posted == async_channel'[Len(async_channel')]
             IN \E i \in 1..Len(workers) :
                  /\ posted.texture_id = workers[i].texture_id
                  /\ posted.texture_name = workers[i].texture_name]_vars

\* The first texture failed to load and the second was loaded through a
\* symbolic link: the table holds the second id alone, under the path the
\* guest gave, and TextureLoaded was sent after the entry was made.
C21_Witness ==
  /\ call.op = "run_frame"
  /\ next_texture_id = 3
  /\ DOMAIN texture_id_to_name = {2}
  /\ texture_id_to_name[2] = <<"link_in">>
  /\ \E a \in 1..Len(trace) :
       /\ trace[a].k = "send"
       /\ trace[a].ev = Ev("TextureLoaded", 9, 2, 0, "")
       /\ trace[a].ids = {2}

(***************************************************************************)
(* C22.  Each ReadFile, LoadTexture or LoadPrefab command whose path the   *)
(* sanitizer accepts starts exactly one worker, for the plugin and the     *)
(* request id of the command.  A worker that finishes posts exactly one    *)
(* envelope, at the end of the channel.  A run_frame call takes every      *)
(* envelope that waited in the channel and sends, for each, exactly one    *)
(* event (the success or the error event of its kind, with its request id) *)
(* to the plugin that asked; nothing else adds to or removes from the      *)
(* workers and the channel.  As workers finish and run_frame keeps being   *)
(* called, every request in flight is replied to.                          *)
(***************************************************************************)
C22_EveryAcceptedRequestIsRepliedOnce ==
  /\ [][LET Kind(type) == CASE type = "ReadFile" -> "File"
                            [] type = "LoadTexture" -> "Texture"
                            [] type = "LoadPrefab" -> "Prefab"
            Replies(kind) == CASE kind = "File" -> {"FileLoaded", "FileError"}
                               [] kind = "Texture" -> {"TextureLoaded", "AssetError"}
                               [] kind = "Prefab" -> {"PrefabLoaded", "AssetError"}
            accepted == SelectSeq(trace', LAMBDA e :
                          /\ e.k = "process"
                          /\ e.cmd.type \in {"ReadFile", "LoadTexture", "LoadPrefab"}
                          /\ sanitize_path(e.cmd.path) # <<>>)
            async == SelectSeq(trace', LAMBDA e : e.fn = "process_async_results" /\ e.k # "drain")
        IN /\ call'.op \in {"initialize", "run_frame"} =>
                /\ Len(workers') = Len(workers) + Len(accepted)
                /\ SubSeq(workers', 1, Len(workers)) = workers
                /\ \A k \in 1..Len(accepted) :
                     LET job == workers'[Len(workers) + k]
                     IN /\ job.plugin_id = accepted[k].plugin
                        /\ job.request_id = accepted[k].cmd.request_id
                        /\ job.kind = Kind(accepted[k].cmd.type)
           /\ call'.op = "initialize" => async_channel' = async_channel
           /\ call'.op = "worker_finish" =>
                /\ Len(async_channel') = Len(async_channel) + 1
                /\ SubSeq(async_channel', 1, Len(async_channel)) = async_channel
                /\ \E i \in 1..Len(workers) :
                     LET posted == async_channel'[Len(async_channel')]
                     IN /\ workers' = SubSeq(workers, 1, i - 1)
                                        \o SubSeq(workers, i + 1, Len(workers))
                        /\ posted.plugin_id = workers[i].plugin_id
                        /\ posted.request_id = workers[i].request_id
                        /\ posted.kind = workers[i].kind
           /\ call'.op = "run_frame" =>
                /\ async_channel' = <<>>
                /\ Len(async) = Len(async_channel)
                /\ \A i \in 1..Len(async_channel) :
                     LET r == async_channel[i]
                         Same(x) == x.plugin_id = r.plugin_id /\ x.request_id = r.request_id
                         Reply(e) == /\ e.k = "send"
                                     /\ e.plugin = r.plugin_id
                                     /\ e.ev.request_id = r.request_id
                                     /\ e.ev.type \in Replies(r.kind)
                     IN Cardinality({a \in 1..Len(async) : Reply(async[a])})
                          = Cardinality({j \in 1..Len(async_channel) :
                                           Same(async_channel[j])})]_vars
  /\ \A q \in AsyncRequests : InFlight(q) ~> Replied(q)

\* Two requests made in one frame are replied to in one later frame: the
\* file was read, the texture failed to load.
C22_Witness ==
  /\ call.op = "run_frame"
  /\ call.channel = 2
  /\ workers = <<>>
  /\ async_channel = <<>>
  /\ {<<1, 7, "LoadTexture">>, <<2, 8, "ReadFile">>} \subseteq hist.asked
  /\ \E a, b \in 1..Len(trace) :
       /\ trace[a].fn = "process_async_results"
       /\ trace[a].k = "send"
       /\ trace[a].plugin = 1
       /\ trace[a].ev = Ev("AssetError", 7, 0, 0, "load error")
       /\ trace[b].fn = "process_async_results"
       /\ trace[b].k = "send"
       /\ trace[b].plugin = 2
       /\ trace[b].ev = Ev("FileLoaded", 8, 0, 0, "")

(***************************************************************************)
(* C23.  A worker thread changes no state of the host or of a guest: the   *)
(* step of a worker posts one envelope to the channel and leaves the       *)
(* handle table, the texture table, the id counters, the world, the plugin *)
(* list with the guests' pending commands and the input queue as they      *)
(* were, also while other workers still run; these change only in steps of *)
(* the main thread.                                                        *)
(***************************************************************************)
C23_WorkersOnlyPost ==
  [][LET host == <<plugins, plugin_id_to_index, entity_map, reverse_entity_map,
                   texture_id_to_name, pending_input_events, last_mouse_position,
                   next_entity_id, next_texture_id, next_plugin_id,
                   frames_since_cleanup, world>>
     IN /\ call'.op = "worker_finish" =>
             /\ host' = host
             /\ Len(workers') = Len(workers) - 1
             /\ Len(async_channel') = Len(async_channel) + 1
        /\ host' # host => call'.op \in {"initialize", "run_frame"}]_vars

\* A worker posts while another one still runs, an earlier result waits in
\* the channel, and the texture table holds a texture.
C23_Witness ==
  /\ call.op = "worker_finish"
  /\ Len(workers) >= 1
  /\ Len(async_channel) >= 1
  /\ texture_id_to_name # EmptyMap

(***************************************************************************)
(* C24.  Processing DespawnEntity{id}: if id is in the handle table, one   *)
(* recursive-despawn command for the entity id maps to is added to the     *)
(* world command queue and id is removed from both directions of the       *)
(* table, so that id is absent afterwards; if id is not in the table, the  *)
(* table and the world command queue stay as they were and a warning is    *)
(* logged.                                                                 *)
(***************************************************************************)
C24_DespawnUnregistersAndQueuesOnce ==
  [][(/\ call'.op = "process_commands"
      /\ Len(trace') > 0
      /\ trace'[1].k = "process"
      /\ trace'[1].cmd.type = "DespawnEntity") =>
       LET id == trace'[1].cmd.entity_id
       IN IF id \in DOMAIN entity_map
          THEN /\ world'.commands
                    = Append(world.commands,
                             WorldCmd("DespawnRecursive", entity_map[id], <<>>))
               /\ id \notin DOMAIN entity_map'
               /\ DOMAIN entity_map' = DOMAIN entity_map \ {id}
               /\ \A i \in DOMAIN entity_map' : entity_map'[i] = entity_map[i]
               /\ entity_map[id] \notin DOMAIN reverse_entity_map'
               /\ DOMAIN reverse_entity_map' = DOMAIN reverse_entity_map \ {entity_map[id]}
               /\ \A e \in DOMAIN reverse_entity_map' :
                    reverse_entity_map'[e] = reverse_entity_map[e]
               /\ \A a \in 1..Len(trace') : trace'[a].k # "warn"
          ELSE /\ entity_map' = entity_map
               /\ reverse_entity_map' = reverse_entity_map
               /\ world'.commands = world.commands
               /\ Len(trace') = 2
               /\ trace'[2].k = "warn"
               /\ trace'[2].cmd = trace'[1].cmd]_vars

\* The second of two registered ids is despawned: the first stays, and the
\* queue holds the despawn of the second's entity.
C24_Witness ==
  /\ call.op = "process_commands"
  /\ trace[1].cmd = Despawn(2)
  /\ DOMAIN entity_map = {1}
  /\ DOMAIN reverse_entity_map = {entity_map[1]}
  /\ Len(world.commands) = 1
  /\ world.commands[1].type = "DespawnRecursive"
  /\ world.commands[1].entity # entity_map[1]

(***************************************************************************)
(* C26.  unregister_entity(id) removes id from both directions of the      *)
(* table and leaves every other entry as it was; on an id that is absent   *)
(* (never registered, or unregistered before) it leaves the table          *)
(* unchanged.  Applying it a second time therefore gives the table the     *)
(* first application gave.                                                 *)
(***************************************************************************)
C26_UnregisterIsIdempotent ==
  [][call'.op = "unregister_entity" =>
       LET id == call'.id
           again == unregister_entity(Runtime', id)
       IN /\ id \notin DOMAIN entity_map'
          /\ \A e \in DOMAIN reverse_entity_map' : reverse_entity_map'[e] # id
          /\ IF id \in DOMAIN entity_map
             THEN /\ DOMAIN entity_map' = DOMAIN entity_map \ {id}
                  /\ \A i \in DOMAIN entity_map' : entity_map'[i] = entity_map[i]
                  /\ DOMAIN reverse_entity_map'
                       = DOMAIN reverse_entity_map \ {entity_map[id]}
                  /\ \A e \in DOMAIN reverse_entity_map' :
                       reverse_entity_map'[e] = reverse_entity_map[e]
             ELSE /\ entity_map' = entity_map
                  /\ reverse_entity_map' = reverse_entity_map
          /\ again.entity_map = entity_map'
          /\ again.reverse_entity_map = reverse_entity_map']_vars

\* unregister_entity is called on an id that was issued and is no longer
\* in the table, while another id is.
C26_Witness ==
  /\ call.op = "unregister_entity"
  /\ call.was = None
  /\ \E k \in 1..Len(hist.issued) : hist.issued[k] = call.id
  /\ entity_map # EmptyMap
  /\ call.id \notin DOMAIN entity_map

(***************************************************************************)
(* C27.  load_plugins_from_directory on a directory that does not exist    *)
(* returns Ok and loads nothing.  On a directory that exists it attempts   *)
(* the entries with extension wasm that the listing yields before the      *)
(* first listing error (none when read_dir itself fails) and returns Err   *)
(* exactly when the listing failed; when the whole listing can be read     *)
(* these are all the direct entries with extension wasm.  A module that    *)
(* fails to load or instantiate is not added to the plugin list, consumes  *)
(* no plugin id, and the later files of the listing are still loaded: the  *)
(* plugins added are the valid modules attempted, in listing order, with   *)
(* consecutive ids from next_plugin_id on.                                 *)
(***************************************************************************)
WasmEntries(entries) == SelectSeq(entries, LAMBDA e : ~e.err /\ e.ext = "wasm")

\* The entries the listing yields before its first error.
Listed(dir) ==
  IF ~dir.exists \/ ~dir.read_dir THEN <<>>
  ELSE LET Errors == {k \in 1..Len(dir.entries) : dir.entries[k].err}
       IN IF Errors = {} THEN dir.entries
          ELSE SubSeq(dir.entries, 1,
                      (CHOOSE k \in Errors : \A j \in Errors : k <= j) - 1)

\* The call attempted exactly the files `tried`, in order.
Attempted(tried) ==
  LET loaded == SelectSeq(tried, LAMBDA e : e.module.valid)
  IN /\ Len(trace') = Len(tried)
     /\ \A k \in 1..Len(tried) :
          /\ trace'[k].k = "load"
          /\ trace'[k].res = IF tried[k].module.valid THEN "ok" ELSE "failed"
     /\ Len(plugins') = Len(plugins) + Len(loaded)
     /\ SubSeq(plugins', 1, Len(plugins)) = plugins
     /\ \A k \in 1..Len(loaded) :
          plugins'[Len(plugins) + k] = PluginInstance(next_plugin_id + k - 1, loaded[k].module)
     /\ next_plugin_id' = next_plugin_id + Len(loaded)

C27_LoadAttemptsListedWasmEntries ==
  [][call'.op = "load_plugins_from_directory" =>
       LET dir == call'.arg[1]
       IN /\ ~dir.exists =>
               /\ call'.ret = <<"Ok">>
               /\ plugins' = plugins
               /\ plugin_id_to_index' = plugin_id_to_index
               /\ next_plugin_id' = next_plugin_id
          /\ Attempted(WasmEntries(Listed(dir)))
          /\ dir.exists =>
               (call'.ret = <<"Ok">> <=> dir.read_dir /\ Listed(dir) = dir.entries)
          /\ call'.ret \in {<<"Ok">>, <<"Err">>}]_vars

\* After one plugin, a directory whose first file fails to load and whose
\* second file loads: the second file got the id the first did not consume.
C27_Witness ==
  /\ call.op = "load_plugins_from_directory"
  /\ call.ret = <<"Ok">>
  /\ Len(call.arg[1].entries) = 2
  /\ Len(plugins) = 2
  /\ Len(trace) = 2
  /\ trace[1].res = "failed"
  /\ trace[2].res = "ok"
  /\ trace[2].plugin = plugins[1].id + 1
  /\ plugins[2].id = plugins[1].id + 1
  /\ next_plugin_id = plugins[2].id + 1

\* The claim as stated: on a directory that exists every direct entry with
\* extension wasm is attempted.  Violated when read_dir fails, or when the
\* listing yields an error before a file with extension wasm.
C27_Original ==
  [][call'.op = "load_plugins_from_directory" =>
       LET dir == call'.arg[1]
       IN /\ ~dir.exists =>
               /\ call'.ret = <<"Ok">>
               /\ plugins' = plugins
               /\ next_plugin_id' = next_plugin_id
          /\ dir.exists => Attempted(WasmEntries(dir.entries))]_vars

(***************************************************************************)
(* C28.  call_on_init calls on_init exactly once on every loaded plugin    *)
(* that exports it, in the order of the plugin list, which is the order of *)
(* the plugin ids, and makes no call for a plugin without the export; a    *)
(* trap in one on_init does not stop the calls that follow.  The commands  *)
(* the plugins sent during on_init are processed, in the order sent, only  *)
(* after the last on_init call has returned.  No other operation calls     *)
(* on_init.  (Of a call that returns: the host does not panic in it.)      *)
(***************************************************************************)
OnInitCalls == SelectSeq(trace, LAMBDA e : e.k = "on_init")

C28_OnInitOncePerExporterBeforeCommands ==
  ~panicked =>
  IF call.op = "initialize"
  THEN LET exporters == SelectSeq(plugins, LAMBDA p : p.on_init)
           first == IF \E k \in 1..Len(trace) : trace[k].fn = "process_commands"
                    THEN CHOOSE k \in 1..Len(trace) :
                           /\ trace[k].fn = "process_commands"
                           /\ \A j \in 1..(k - 1) : trace[j].fn # "process_commands"
                    ELSE Len(trace) + 1
           pushed == SelectSeq(SubSeq(trace, 1, first - 1), LAMBDA e : e.k = "push")
           processed == SelectSeq(trace, LAMBDA e : e.k = "process")
       IN /\ Len(OnInitCalls) = Len(exporters)
          /\ \A k \in 1..Len(exporters) :
               /\ OnInitCalls[k].plugin = exporters[k].id
               /\ \A j \in 1..(k - 1) : OnInitCalls[j].plugin < OnInitCalls[k].plugin
          /\ \A k \in first..Len(trace) : trace[k].k # "on_init"
          /\ Len(processed) = Len(pushed)
          /\ \A k \in 1..Len(pushed) :
               /\ processed[k].plugin = pushed[k].plugin
               /\ processed[k].cmd = pushed[k].cmd
  ELSE OnInitCalls = <<>>

\* The first plugin sent a Log command and trapped in on_init; on_init of the
\* second plugin was called after it and spawned a primitive; both commands
\* were processed after the two calls.
C28_Witness ==
  /\ call.op = "initialize"
  /\ Len(OnInitCalls) = 2
  /\ OnInitCalls[1].res = "trap"
  /\ OnInitCalls[2].res = "ok"
  /\ LET processed == SelectSeq(trace, LAMBDA e : e.k = "process")
     IN /\ Len(processed) = 2
        /\ processed[1].plugin = plugins[1].id
        /\ processed[1].cmd.type = "Log"
        /\ processed[2].plugin = plugins[2].id
        /\ processed[2].cmd.type = "SpawnPrimitive"

(***************************************************************************)
(* C29.  A buffer passed to host_send_command that does not decode as an   *)
(* EngineCommand is discarded.  In every run_frame call, for every plugin  *)
(* that exports on_frame and memory: each buffer its on_frame passes is    *)
(* handled in turn, pushed if it decodes and discarded if not, whatever    *)
(* was discarded before it, and on_frame traps only if the guest itself    *)
(* traps; the commands processed for the plugin are the ones that were in  *)
(* its buffer when the frame started followed by the ones pushed, so a     *)
(* discarded buffer leaves the pending buffer as it was and no command is  *)
(* processed for it; and every reply sent while the commands are processed *)
(* answers a processed command of the plugin it is sent to, so a discarded *)
(* buffer is not replied to.                                               *)
(***************************************************************************)
C29_UndecodablePayloadIsDiscarded ==
  call.op = "run_frame" =>
    LET Reply(a) == trace[a].fn = "process_commands" /\ trace[a].k \in {"send", "drop"}
    IN /\ \A i \in 1..Len(plugins) :
            (plugins[i].on_frame /\ plugins[i].memory) =>
              LET id == plugins[i].id
                  b == call.guest[id]
                  f == CHOOSE k \in 1..Len(trace) :
                         trace[k].k = "on_frame" /\ trace[k].plugin = id
                  pushed == SelectSeq(SubSeq(trace, 1, f),
                                      LAMBDA e : e.k = "push" /\ e.plugin = id)
                  processed == SelectSeq(trace,
                                         LAMBDA e : e.k = "process" /\ e.plugin = id)
              IN /\ Len(b.frame) < f
                 /\ \A j \in 1..Len(b.frame) :
                      LET e == trace[f - Len(b.frame) + j - 1]
                      IN /\ e.fn = "host_send_command"
                         /\ e.plugin = id
                         /\ IF b.frame[j].ok
                            THEN e.k = "push" /\ e.cmd = b.frame[j].cmd
                            ELSE e.k = "discard"
                 /\ trace[f].res = (IF b.trap THEN "trap" ELSE "ok")
                 /\ [k \in 1..Len(processed) |-> processed[k].cmd]
                      = call.pending[i] \o [k \in 1..Len(pushed) |-> pushed[k].cmd]
       /\ \A a \in 1..Len(trace) :
            /\ trace[a].k = "process" => trace[a].cmd # NoCmd
            /\ Reply(a) =>
                 \E c \in 1..(a - 1) :
                   /\ trace[c].k = "process"
                   /\ trace[c].plugin = trace[a].plugin
                   /\ \A m \in (c + 1)..(a - 1) : ~Reply(m) /\ trace[m].k # "process"

\* on_frame of a plugin passed a SpawnPrimitive command, an undecodable
\* buffer and a Log command: the buffer was discarded, the two commands
\* were pushed around it, on_frame returned, and the commands processed for
\* the plugin are these two, after those that were pending.
C29_Witness ==
  /\ call.op = "run_frame"
  /\ \E i \in 1..Len(plugins), k \in 1..Len(trace) :
       /\ call.guest[plugins[i].id] = Active
       /\ trace[k].k = "push" /\ trace[k].cmd = Spawn(7)
       /\ trace[k + 1].k = "discard" /\ trace[k + 1].plugin = plugins[i].id
       /\ trace[k + 2].k = "push" /\ trace[k + 2].cmd = LogCmd("frame")
       /\ trace[k + 3].k = "on_frame" /\ trace[k + 3].res = "ok"
       /\ LET processed == SelectSeq(trace, LAMBDA e : e.k = "process"
                                                       /\ e.plugin = plugins[i].id)
          IN /\ Len(processed) = Len(call.pending[i]) + 2
             /\ processed[Len(processed)].cmd = LogCmd("frame")
             /\ processed[Len(processed) - 1].cmd = Spawn(7)

(***************************************************************************)
(* C30.  Async results are dispatched in the order in which the workers    *)
(* posted them, whatever the order in which the requests were issued.  A   *)
(* worker that finishes posts its result behind the results that wait in   *)
(* the channel, whichever position it has among the running workers (these *)
(* are kept in the order the requests were issued); and a run_frame call   *)
(* answers the results that waited when it started one by one in the order *)
(* of the channel, each with one reply for its request to its plugin.      *)
(***************************************************************************)
C30_RepliesFollowCompletionOrder ==
  [][/\ call'.op = "worker_finish" =>
          /\ Len(async_channel') = Len(async_channel) + 1
          /\ SubSeq(async_channel', 1, Len(async_channel)) = async_channel
          /\ \E i \in 1..Len(workers) :
               async_channel'[Len(async_channel')].request_id = workers[i].request_id
     /\ call'.op = "run_frame" =>
          LET answered == SelectSeq(trace', LAMBDA e : /\ e.fn = "process_async_results"
                                                      /\ e.k \in {"send", "drop"})
          IN /\ Len(answered) = Len(async_channel)
             /\ \A k \in 1..Len(answered) :
                  /\ answered[k].plugin = async_channel[k].plugin_id
                  /\ answered[k].ev.request_id = async_channel[k].request_id]_vars

\* Requests 7 and 8 are issued in one frame, 7 first (the first plugin's
\* commands are processed before the second's).  The worker of request 8
\* posted before the worker of request 7, and the frame that drained both
\* results answered request 8 before request 7.
C30_Witness ==
  /\ call.op = "run_frame"
  /\ call.channel = 2
  /\ LET answered == SelectSeq(trace, LAMBDA e : /\ e.fn = "process_async_results"
                                                 /\ e.k \in {"send", "drop"})
     IN /\ Len(answered) = 2
        /\ answered[1].ev.request_id = 8
        /\ answered[1].plugin = plugins[2].id
        /\ answered[2].ev.request_id = 7
        /\ answered[2].plugin = plugins[1].id

(***************************************************************************)
(* C31.  The texture id of a LoadTexture command is allocated while the    *)
(* command is processed, and only when its path is accepted: a frame       *)
(* advances next_texture_id by the number of accepted LoadTexture commands *)
(* it processed, the k-th of them starts a worker that carries the id      *)
(* next_texture_id + k - 1 from the start, and a rejected command and a    *)
(* finishing worker allocate nothing.  The ids still held by workers, by   *)
(* results in the channel and by the texture table are below               *)
(* next_texture_id and pairwise different, and next_texture_id never       *)
(* decreases, so each accepted command, also one for a path loaded before, *)
(* gets an id above all earlier ones.  The worker posts the id it was      *)
(* given, and the TextureLoaded reply carries the id and the request id of *)
(* the result it answers.                                                  *)
(***************************************************************************)
C31_TextureIdAllocatedAtDispatch ==
  [][LET accepted == SelectSeq(trace', LAMBDA e : /\ e.k = "process"
                                                 /\ e.cmd.type = "LoadTexture"
                                                 /\ sanitize_path(e.cmd.path) # <<>>)
         started == SelectSeq(SubSeq(workers', Len(workers) + 1, Len(workers')),
                              LAMBDA j : j.kind = "Texture")
         answered == SelectSeq(trace', LAMBDA e : /\ e.fn = "process_async_results"
                                                 /\ e.k \in {"send", "drop"})
         Held(w, c, t) == {w[k].texture_id : k \in {j \in 1..Len(w) : w[j].kind = "Texture"}}
                            \cup {c[k].texture_id : k \in {j \in 1..Len(c) : c[j].kind = "Texture"}}
                            \cup DOMAIN t
     IN /\ next_texture_id' >= next_texture_id
        /\ \A id \in Held(workers', async_channel', texture_id_to_name') :
             id < next_texture_id'
        /\ \A a, b \in 1..Len(workers') :
             (/\ workers'[a].kind = "Texture" /\ workers'[b].kind = "Texture"
              /\ workers'[a].texture_id = workers'[b].texture_id) => a = b
        /\ call'.op \in {"initialize", "run_frame"} =>
             /\ next_texture_id' = next_texture_id + Len(accepted)
             /\ Len(started) = Len(accepted)
             /\ \A k \in 1..Len(accepted) :
                  /\ started[k].texture_id = next_texture_id + k - 1
                  /\ started[k].request_id = accepted[k].cmd.request_id
                  /\ started[k].plugin_id = accepted[k].plugin
                  /\ started[k].texture_name = accepted[k].cmd.path
                  /\ started[k].texture_id \notin Held(workers, async_channel, texture_id_to_name)
        /\ call'.op = "run_frame" =>
             \A k \in 1..Len(async_channel) :
               (async_channel[k].kind = "Texture" /\ async_channel[k].result = "ok") =>
                 /\ answered[k].ev.type = "TextureLoaded"
                 /\ answered[k].ev.request_id = async_channel[k].request_id
                 /\ answered[k].ev.id = async_channel[k].texture_id
        /\ call'.op \notin {"initialize", "run_frame"} =>
             next_texture_id' = next_texture_id
        /\ call'.op = "worker_finish" =>
             \E i \in 1..Len(workers) :
               LET posted == async_channel'[Len(async_channel')]
               IN /\ posted.texture_id = workers[i].texture_id
                  /\ posted.request_id = workers[i].request_id]_vars

\* The path logo.png is loaded for the second time, in a frame that also
\* rejected a LoadTexture: the table holds the path under the id of the
\* first load and under the greater id of the second, and TextureLoaded for
\* the second request carried the second id.
C31_Witness ==
  /\ call.op = "run_frame"
  /\ <<2, 13, "LoadTexture">> \in hist.asked
  /\ \E first, second \in DOMAIN texture_id_to_name :
       /\ first < second
       /\ texture_id_to_name[first] = <<"logo.png">>
       /\ texture_id_to_name[second] = <<"logo.png">>
       /\ next_texture_id = second + 1
       /\ \E a \in 1..Len(trace) :
            /\ trace[a].k = "send"
            /\ trace[a].ev.type = "TextureLoaded"
            /\ trace[a].ev.id = second
            /\ trace[a].ev.request_id \in {7, 12}

(***************************************************************************)
(* C32.  When run_frame consumes a prefab result: if the result holds a    *)
(* prefab, it is instantiated as a new entity of the world, the entity is  *)
(* registered under a new id of the handle table, and PrefabLoaded with    *)
(* the request id and that entity id is sent to the plugin that asked,     *)
(* with the id in the table when the event is sent.  If the result decoded *)
(* without a prefab in it, or did not decode, AssetError with the request  *)
(* id is sent instead, no entity is created, and the handle table is as    *)
(* the results consumed before it left it.  (Of a call that returns: the   *)
(* host does not panic in it.)                                             *)
(***************************************************************************)
C32_PrefabResultRegistersOrFails ==
  [][(call'.op = "run_frame" /\ ~panicked') =>
       LET answered == SelectSeq(trace', LAMBDA e : /\ e.fn = "process_async_results"
                                                   /\ e.k \in {"send", "drop"})
           Loaded(k) == async_channel[k].kind = "Prefab" /\ async_channel[k].result = "ok"
           \* The number of results among the first k that hold a prefab.
           Before(k) == Cardinality({j \in 1..k : Loaded(j)})
           new == SubSeq(hist.issued', Len(hist.issued) + 1, Len(hist.issued'))
           spawned == SelectSeq(trace', LAMBDA e : /\ e.k = "process"
                                                  /\ e.cmd.type = "SpawnPrimitive")
           Table(k) == DOMAIN entity_map \cup {new[j] : j \in 1..Before(k)}
       IN /\ Len(new) = Before(Len(async_channel)) + Len(spawned)
          /\ \A k \in 1..Len(async_channel) :
               async_channel[k].kind = "Prefab" =>
                 /\ answered[k].k = "send"
                 /\ answered[k].plugin = async_channel[k].plugin_id
                 /\ answered[k].ev.request_id = async_channel[k].request_id
                 /\ IF Loaded(k)
                    THEN LET id == new[Before(k)]
                             entity == world.next_entity + Before(k) - 1
                         IN /\ answered[k].ev.type = "PrefabLoaded"
                            /\ answered[k].ev.id = id
                            /\ id \notin Table(k - 1)
                            /\ answered[k].ids = Table(k)
                            /\ ~is_entity_valid(world, entity)
                            /\ is_entity_valid(world', entity)
                            /\ Has(entity_map', id) => entity_map'[id] = entity
                            /\ Has(reverse_entity_map', entity) =>
                                 reverse_entity_map'[entity] = id
                    ELSE /\ answered[k].ev.type = "AssetError"
                         /\ answered[k].ids = Table(k - 1)]_vars

\* The frame consumed a prefab result with a prefab in it while the table
\* held an id: the entity is registered under the next id, and PrefabLoaded
\* carries that id.
C32_Witness ==
  /\ call.op = "run_frame"
  /\ \E a \in 1..Len(trace) :
       /\ trace[a].fn = "process_async_results"
       /\ trace[a].ev.type = "PrefabLoaded"
       /\ trace[a].res = "received"
       /\ trace[a].ev.id = 2
       /\ trace[a].ids = {1, 2}
       /\ Has(entity_map, 2)
       /\ is_entity_valid(world, entity_map[2])

(***************************************************************************)
(* C33.  For every pointer and length of 32 bits and every size of the     *)
(* guest memory up to 2^32 bytes, host_send_command either rejects the     *)
(* request as out of bounds or reads exactly the bytes from ptr up to      *)
(* ptr + len, inside the memory; the 32-bit sum never wraps and the host   *)
(* function never panics.  Violated: with a memory of 2^32 bytes and       *)
(* ptr + len = 2^32 the bounds check passes and the 32-bit sum overflows.  *)
(***************************************************************************)
C33_SliceIsCheckedOrRejected ==
  call.op = "host_send_command" =>
    /\ call.ret.outcome \in {"out_of_bounds", "read"}
    /\ call.ret.outcome = "read" =>
         /\ call.ret.from = call.arg.ptr
         /\ call.ret.to = call.arg.ptr + call.arg.len
         /\ call.ret.to <= call.arg.data_len
    /\ call.ret.outcome = "out_of_bounds" =>
         call.arg.ptr + call.arg.len > call.arg.data_len

\* The guest passes the last byte of a memory of full size: the check
\* passes, and the slice panics in the build that wraps (its end is 0) as
\* the addition does in the build that checks overflow.
C33_Witness ==
  /\ call.op = "host_send_command"
  /\ call.arg.data_len = 2^Width
  /\ call.arg.ptr = 2^Width - 1
  /\ call.arg.len = 1
  /\ ~call.arg.overflow_checks
  /\ call.ret = Slice("panic", 2^Width - 1, 0)

(***************************************************************************)
(* C34.  A trap in on_init or on_frame discards no buffered command.  When *)
(* the call of a plugin traps after the guest passed commands to           *)
(* host_send_command, the commands that decode are drained and processed   *)
(* in the same initialize or run_frame call, in the order the guest sent   *)
(* them, after the commands that waited in the plugin's buffer.            *)
(***************************************************************************)
C34_TrapKeepsBufferedCommands ==
  call.op \in {"initialize", "run_frame"} =>
    \A i \in 1..Len(plugins) :
      LET id == plugins[i].id
          b == call.guest[id]
          sends == IF call.op = "initialize" THEN b.init ELSE b.frame
          exported == IF call.op = "initialize" THEN plugins[i].on_init
                      ELSE plugins[i].on_frame
          waiting == IF i <= Len(call.pending) THEN call.pending[i] ELSE <<>>
          decoded == SelectSeq(sends, LAMBDA payload : payload.ok)
          processed == SelectSeq(trace, LAMBDA e : e.k = "process" /\ e.plugin = id)
          trapped == \E k \in 1..Len(trace) :
                       /\ trace[k].k \in {"on_init", "on_frame"}
                       /\ trace[k].plugin = id
                       /\ trace[k].res = "trap"
      IN /\ (exported /\ b.trap) <=> trapped
         /\ (trapped /\ plugins[i].memory) =>
              /\ Len(processed) >= Len(waiting) + Len(decoded)
              /\ \A k \in 1..Len(waiting) : processed[k].cmd = waiting[k]
              /\ \A k \in 1..Len(decoded) :
                   processed[Len(processed) - Len(decoded) + k].cmd = decoded[k].cmd
              /\ plugins[i].pending_commands = <<>>

\* on_frame of the first plugin sent two Log commands and trapped: the two
\* were processed in that frame, in the order sent.
C34_Witness ==
  /\ call.op = "run_frame"
  /\ Len(plugins) = 2
  /\ call.guest[plugins[1].id] = Crasher
  /\ \E k \in 1..Len(trace) :
       /\ trace[k].k = "on_frame" /\ trace[k].plugin = plugins[1].id
       /\ trace[k].res = "trap"
       /\ \E a, c \in (k + 1)..Len(trace) :
            /\ a < c
            /\ trace[a].k = "process" /\ trace[a].cmd = LogCmd("first")
            /\ trace[c].k = "process" /\ trace[c].cmd = LogCmd("second")

(***************************************************************************)
(* C35, as amended.  A command pushed while a plugin handles an event      *)
(* waits in the plugin's buffer for the next drain, which is the command   *)
(* step of the same run_frame when the event is delivered before on_frame  *)
(* and of the next run_frame when the event is a reply sent in the command *)
(* step, and is processed exactly once, ahead of what on_frame emits.  In  *)
(* every initialize or run_frame call, for a plugin whose on_init or       *)
(* on_frame is called, the commands processed for it are the ones that     *)
(* were in its buffer when the call started, then the ones it pushed while *)
(* it handled the events delivered before its on_frame, then the ones its  *)
(* on_frame pushed; the commands it pushed while it handled the replies    *)
(* sent in the command step are the whole of its buffer when the call      *)
(* ends, and so are the first to be processed for it in the next           *)
(* run_frame.  For a plugin whose handler is not exported nothing is       *)
(* processed and every push is added to its buffer.  No other operation    *)
(* touches a buffer.                                                       *)
(***************************************************************************)
C35_EventCommandsWaitForNextDrain ==
  [][IF call'.op \in {"initialize", "run_frame"}
     THEN \A i \in 1..Len(plugins') :
            LET id == plugins'[i].id
                b == call'.guest[id]
                run == call'.op = "run_frame"
                exported == IF run THEN plugins'[i].on_frame ELSE plugins'[i].on_init
                sent == IF ~plugins'[i].memory THEN 0
                        ELSE IF run THEN Len(b.frame) ELSE Len(b.init)
                waiting == IF i <= Len(plugins) THEN plugins[i].pending_commands ELSE <<>>
                Pushed(from, to) ==
                  LET es == SelectSeq(SubSeq(trace', from, to),
                                      LAMBDA e : e.k = "push" /\ e.plugin = id)
                  IN [k \in 1..Len(es) |-> es[k].cmd]
                processed ==
                  LET es == SelectSeq(trace', LAMBDA e : e.k = "process" /\ e.plugin = id)
                  IN [k \in 1..Len(es) |-> es[k].cmd]
                marks == {k \in 1..Len(trace') :
                            trace'[k].k \in {"on_init", "on_frame"} /\ trace'[k].plugin = id}
            IN IF exported
               THEN /\ Cardinality(marks) = 1
                    /\ \A f \in marks :
                         /\ processed = waiting \o Pushed(1, f - sent - 1)
                                                \o Pushed(f - sent, f - 1)
                         /\ plugins'[i].pending_commands = Pushed(f + 1, Len(trace'))
               ELSE /\ marks = {}
                    /\ processed = <<>>
                    /\ plugins'[i].pending_commands = waiting \o Pushed(1, Len(trace'))
     ELSE /\ Len(plugins') = Len(plugins)
          /\ \A i \in 1..Len(plugins) :
               plugins'[i].pending_commands = plugins[i].pending_commands]_vars

\* A plugin was sent EntitySpawned in the command step of a frame and
\* pushed a Log command while it handled it; a key was then pressed, and in
\* the next frame the plugin pushed another Log command when it was told;
\* the commands processed for it in that frame are the Log command that
\* waited, the one for the key, and the commands of its on_frame, each once.
C35_Witness ==
  /\ call.op = "run_frame"
  /\ \E i \in 1..Len(plugins) :
       /\ plugins[i].on_frame
       /\ call.guest[plugins[i].id] = Active
       /\ call.pending[i] = <<LogCmd("event")>>
       /\ \E k \in 1..Len(trace) :
            /\ trace[k].k = "send" /\ trace[k].ev.type = "KeyPressed"
            /\ trace[k].plugin = plugins[i].id /\ trace[k].res = "received"
       /\ LET es == SelectSeq(trace, LAMBDA e : e.k = "process"
                                                /\ e.plugin = plugins[i].id)
          IN [k \in 1..Len(es) |-> es[k].cmd]
               = <<LogCmd("event"), LogCmd("event"), Spawn(7), LogCmd("frame")>>

\* C35 as stated: a command a plugin pushes while it handles an event is
\* processed in the command step of the next run_frame.  The commands
\* processed for a plugin in a run_frame call are then the ones that were
\* in its buffer when the call started followed by the ones its on_frame
\* pushed, and the ones it pushed while it handled an event of this call
\* are in its buffer when the call ends.
C35_EventCommandsWaitForNextFrame ==
  [][call'.op = "run_frame" =>
       \A i \in 1..Len(plugins') :
         LET id == plugins'[i].id
             sent == IF ~plugins'[i].memory THEN 0 ELSE Len(call'.guest[id].frame)
             waiting == plugins[i].pending_commands
             Pushed(from, to) ==
               LET es == SelectSeq(SubSeq(trace', from, to),
                                   LAMBDA e : e.k = "push" /\ e.plugin = id)
               IN [k \in 1..Len(es) |-> es[k].cmd]
             processed ==
               LET es == SelectSeq(trace', LAMBDA e : e.k = "process" /\ e.plugin = id)
               IN [k \in 1..Len(es) |-> es[k].cmd]
             marks == {k \in 1..Len(trace') :
                         trace'[k].k = "on_frame" /\ trace'[k].plugin = id}
         IN plugins'[i].on_frame =>
              \A f \in marks :
                /\ processed = waiting \o Pushed(f - sent, f - 1)
                /\ plugins'[i].pending_commands
                     = Pushed(1, f - sent - 1) \o Pushed(f + 1, Len(trace'))]_vars

(***************************************************************************)
(* C36.  A despawned id is unknown for the rest of the pass.  In a         *)
(* run_frame call whose command pass processes DespawnEntity for an id     *)
(* that is in the table, every command processed later in the pass that    *)
(* refers to the id, whichever plugin sent it, meets an unknown id: a Get  *)
(* is answered with EntityNotFound for its request id, sent to the plugin  *)
(* that asked, and a Set, a SetEntityMaterial and another DespawnEntity    *)
(* are only warned about.  After the pass the id and its entity are in     *)
(* neither direction of the table, the world command queue has grown by    *)
(* one DespawnRecursive per despawned id and by nothing else, and the      *)
(* entity's transform is the one left by the Set commands processed before *)
(* the despawn, and its material the one it had.                           *)
(***************************************************************************)
C36_DespawnedIdIsUnknownInPass ==
  [][call'.op = "run_frame" =>
       LET tr == trace'
           Proc(k) == tr[k].k = "process"
           Refers(k, id) ==
             /\ Proc(k)
             /\ tr[k].cmd.entity_id = id
             /\ tr[k].cmd.type \in {"GetEntityPosition", "GetEntityScale",
                                    "GetEntityRotation", "SetEntityPosition",
                                    "SetEntityScale", "SetEntityRotation",
                                    "SetEntityMaterial", "DespawnEntity"}
           Despawns(k, id) == Refers(k, id) /\ tr[k].cmd.type = "DespawnEntity"
           Spawned(k, id) ==
             /\ tr[k].k \in {"send", "drop"}
             /\ tr[k].ev.type = "EntitySpawned"
             /\ tr[k].ev.id = id
           Known(k, id) ==
             Has(entity_map, id) \/ \E j \in 1..(k - 1) : Spawned(j, id)
           First(k, id) ==
             Despawns(k, id) /\ Known(k, id) /\ \A j \in 1..(k - 1) : ~Despawns(j, id)
           despawned == {id \in 1..(MaxIds + 1) : \E k \in 1..Len(tr) : First(k, id)}
           queued == SubSeq(world'.commands, Len(world.commands) + 1, Len(world'.commands))
       IN /\ \A id \in despawned :
               LET a == CHOOSE k \in 1..Len(tr) : First(k, id)
                   Last(type, was) ==
                     LET ks == {k \in 1..(a - 1) : Refers(k, id) /\ tr[k].cmd.type = type}
                     IN IF ks = {} THEN was
                        ELSE tr[CHOOSE k \in ks : \A j \in ks : j <= k].cmd.x
               IN /\ \A c \in (a + 1)..Len(tr) :
                       Refers(c, id) =>
                         /\ c < Len(tr)
                         /\ IF tr[c].cmd.type \in {"GetEntityPosition", "GetEntityScale",
                                                   "GetEntityRotation"}
                            THEN /\ tr[c + 1].k = "send"
                                 /\ tr[c + 1].plugin = tr[c].plugin
                                 /\ tr[c + 1].ev = Ev("EntityNotFound", tr[c].cmd.request_id,
                                                      id, 0, "")
                            ELSE /\ tr[c + 1].k = "warn"
                                 /\ tr[c + 1].cmd = tr[c].cmd
                                 /\ tr[c + 1].res = "invalid entity"
                  /\ ~Has(entity_map', id)
                  /\ Has(entity_map, id) =>
                       LET entity == entity_map[id]
                       IN /\ ~Has(reverse_entity_map', entity)
                          /\ Cardinality({k \in 1..Len(queued) :
                                            queued[k] = WorldCmd("DespawnRecursive",
                                                                 entity, <<>>)}) = 1
                          /\ Has(world'.local, entity) = Has(world.local, entity)
                          /\ Has(world.local, entity) =>
                               world'.local[entity] =
                                 Transform(
                                   Last("SetEntityPosition", world.local[entity].translation),
                                   Last("SetEntityScale", world.local[entity].scale),
                                   Last("SetEntityRotation", world.local[entity].rotation))
                          /\ Has(world'.material, entity) = Has(world.material, entity)
                          /\ Has(world.material, entity) =>
                               world'.material[entity] = world.material[entity]
          /\ world'.commands = world.commands \o queued
          /\ Len(queued) = Cardinality(despawned)
          /\ \A k \in 1..Len(queued) : queued[k].type = "DespawnRecursive"]_vars

\* The first plugin moved entity 1 (the third of the world, after the two
\* of the host), despawned it, then asked for its
\* position, moved it, gave it a material and despawned it again, and the
\* second plugin asked for its position: both were answered EntityNotFound,
\* the three other commands were warned about, and the entity is where the
\* first move put it, with one DespawnRecursive command queued.
C36_Witness ==
  /\ call.op = "run_frame"
  /\ Len(plugins) = 2
  /\ call.guest[plugins[1].id] = Burst(1, 7)
  /\ ~Has(entity_map, 1)
  /\ Has(world.local, 3) /\ world.local[3].translation = 3
  /\ world.commands = <<WorldCmd("DespawnRecursive", 3, <<>>)>>
  /\ \E a, b \in 1..Len(trace) :
       /\ trace[a].k = "send" /\ trace[a].plugin = plugins[1].id
       /\ trace[a].ev = Ev("EntityNotFound", 7, 1, 0, "")
       /\ trace[b].k = "send" /\ trace[b].plugin = plugins[2].id
       /\ trace[b].ev = Ev("EntityNotFound", 8, 1, 0, "")
  /\ Cardinality({k \in 1..Len(trace) :
                    trace[k].k = "warn" /\ trace[k].res = "invalid entity"}) = 3

(***************************************************************************)
(* C37.  DamageEnemy never wraps and reports what it stored.  In every     *)
(* pass of process_game_commands, a DamageEnemy for an enemy that is known *)
(* when it is processed is followed at once by a broadcast of EnemyDamaged *)
(* for that enemy whose remaining_health is max(health - damage, 0), where *)
(* health is what the enemy had at that point (its health before the pass, *)
(* or the maximum of its type if it was spawned in the pass, less the      *)
(* damage dealt earlier in the pass); a DamageEnemy for an unknown enemy   *)
(* sends nothing; after the pass every enemy has the health last reported  *)
(* for it, or the health it had, and that health lies between 0 and the    *)
(* maximum of its type, 20, 50 or 200.                                     *)
(***************************************************************************)
C37_DamageSaturatesAndReportsStoredHealth ==
  [][call'.op \in {"initialize", "run_frame"} =>
       LET tr == trace'
           Game(k) == tr[k].k = "game"
           Sent(k) == tr[k].k \in {"unicast", "broadcast"}
           Max(t) == CASE t = "Slime" -> 20 [] t = "Skeleton" -> 50 [] t = "Dragon" -> 200
           health[k \in 0..Len(tr)] ==
             IF k = 0
             THEN [id \in DOMAIN game_state.enemies |-> game_state.enemies[id].health]
             ELSE LET e == tr[k]
                      was == health[k - 1]
                  IN IF Sent(k) /\ e.ev.type = "EnemySpawned"
                     THEN MapPut(was, e.ev.id, Max(e.ev.kind))
                     ELSE IF Game(k) /\ e.cmd.type = "DespawnEnemy"
                     THEN MapRemove(was, e.cmd.id)
                     ELSE IF Game(k) /\ e.cmd.type = "DamageEnemy" /\ Has(was, e.cmd.id)
                     THEN [was EXCEPT ![e.cmd.id] =
                             IF @ - e.cmd.amount > 0 THEN @ - e.cmd.amount ELSE 0]
                     ELSE was
       IN /\ \A k \in 1..Len(tr) :
               (Game(k) /\ tr[k].cmd.type = "DamageEnemy") =>
                 IF Has(health[k - 1], tr[k].cmd.id)
                 THEN /\ k < Len(tr)
                      /\ tr[k + 1].k = "broadcast"
                      /\ tr[k + 1].ev = GameEv("EnemyDamaged", 0, tr[k].cmd.id, "",
                                               health[k][tr[k].cmd.id], 0, <<>>)
                 ELSE k = Len(tr) \/ Game(k + 1)
          /\ DOMAIN game_state'.enemies = DOMAIN health[Len(tr)]
          /\ \A id \in DOMAIN game_state'.enemies :
               LET enemy == game_state'.enemies[id]
               IN /\ enemy.health = health[Len(tr)][id]
                  /\ enemy.enemy_type \in {"Slime", "Skeleton", "Dragon"}
                  /\ enemy.health >= 0
                  /\ enemy.health <= Max(enemy.enemy_type)]_vars

\* A dragon was damaged by 2147483647, far more than its health:
\* EnemyDamaged was broadcast to both plugins with remaining_health 0, and
\* 0 is the health the dragon is left with.
C37_Witness ==
  /\ call.op = "run_frame"
  /\ Has(game_state.enemies, 1)
  /\ game_state.enemies[1].enemy_type = "Dragon"
  /\ game_state.enemies[1].health = 0
  /\ \E k \in 1..(Len(trace) - 1) :
       /\ trace[k].k = "game" /\ trace[k].cmd = DamageEnemy(1, 2147483647)
       /\ trace[k + 1].k = "broadcast"
       /\ trace[k + 1].ids = {plugins[1].id, plugins[2].id}
       /\ trace[k + 1].ev = GameEv("EnemyDamaged", 0, 1, "", 0, 0, <<>>)

(***************************************************************************)
(* C38.  Who is told of an enemy, and how often.  In every pass of         *)
(* process_game_commands, SpawnEnemy allocates the next enemy id and is    *)
(* followed at once by EnemySpawned, with the request id, the new id and   *)
(* the type, sent to the plugin that sent the command and to no other;     *)
(* DespawnEnemy for a known enemy is followed at once by EnemyDied, with   *)
(* the id and the type of the enemy, sent to all plugins, and queues the   *)
(* despawn of its entity; DespawnEnemy for an absent id sends nothing,     *)
(* queues nothing and leaves the enemies as they are.  Over the whole      *)
(* run, no enemy id is in two EnemyDied events, and the enemy ids          *)
(* allocated are strictly increasing, so none is allocated twice.          *)
(***************************************************************************)
C38_SpawnUnicastDeathBroadcastOnce ==
  [][call'.op \in {"initialize", "run_frame"} =>
       LET tr == trace'
           Game(k) == tr[k].k = "game"
           all == {plugins'[i].id : i \in 1..Len(plugins')}
           died == {k \in 1..Len(tr) :
                      tr[k].k \in {"unicast", "broadcast"} /\ tr[k].ev.type = "EnemyDied"}
           spawned == {k \in 1..Len(tr) :
                         tr[k].k \in {"unicast", "broadcast"} /\ tr[k].ev.type = "EnemySpawned"}
       IN /\ \A k \in 1..Len(tr) :
               /\ (Game(k) /\ tr[k].cmd.type = "SpawnEnemy") =>
                    /\ k < Len(tr)
                    /\ tr[k + 1].k = "unicast"
                    /\ tr[k + 1].plugin = tr[k].plugin
                    /\ tr[k + 1].ids = {tr[k].plugin}
                    /\ tr[k + 1].ev.type = "EnemySpawned"
                    /\ tr[k + 1].ev.request_id = tr[k].cmd.request_id
                    /\ tr[k + 1].ev.kind = tr[k].cmd.kind
                    /\ tr[k + 1].ev.id \notin tr[k].ids
                    /\ tr[k + 1].ev.id = game_state.next_enemy_id
                                           + Cardinality({j \in spawned : j < k})
               /\ (Game(k) /\ tr[k].cmd.type = "DespawnEnemy") =>
                    IF tr[k].cmd.id \in tr[k].ids
                    THEN /\ k < Len(tr)
                         /\ tr[k + 1].k = "broadcast"
                         /\ tr[k + 1].ids = all
                         /\ tr[k + 1].ev.type = "EnemyDied"
                         /\ tr[k + 1].ev.id = tr[k].cmd.id
                         /\ k + 1 < Len(tr) => tr[k].cmd.id \notin tr[k + 2].ids
                    ELSE /\ k = Len(tr) \/ Game(k + 1)
                         /\ k < Len(tr) => tr[k + 1].ids = tr[k].ids
               /\ k \in died => k > 1 /\ Game(k - 1) /\ tr[k - 1].cmd.type = "DespawnEnemy"
               /\ k \in spawned => k > 1 /\ Game(k - 1) /\ tr[k - 1].cmd.type = "SpawnEnemy"
          /\ DOMAIN game_state'.enemies =
               (DOMAIN game_state.enemies \cup {tr[k].ev.id : k \in spawned})
                 \ {tr[k].ev.id : k \in died}
          /\ Len(world'.commands) = Len(world.commands) + Cardinality(died)
          /\ Len(hist'.died) = Len(hist.died) + Cardinality(died)
          /\ \A a, b \in 1..Len(hist'.died) : a < b => hist'.died[a] # hist'.died[b]
          /\ Len(hist'.enemy_ids) = Len(hist.enemy_ids) + Cardinality(spawned)
          /\ \A a, b \in 1..Len(hist'.enemy_ids) :
               a < b => hist'.enemy_ids[a] < hist'.enemy_ids[b]
          /\ game_state'.next_enemy_id = game_state.next_enemy_id + Cardinality(spawned)
          /\ \A a \in 1..Len(hist'.enemy_ids) :
               hist'.enemy_ids[a] < game_state'.next_enemy_id]_vars

\* An enemy had died in an earlier frame.  In this frame the first plugin
\* spawned a skeleton and was the only one told of it; the second plugin
\* and then the first despawned it and EnemyDied was broadcast once, to
\* both; the new enemy has an id above that of the first.
C38_Witness ==
  /\ call.op = "run_frame"
  /\ Len(plugins) = 2
  /\ hist.enemy_ids = <<1, 2>>
  /\ hist.died = <<1, 2>>
  /\ \E a, b, c \in 1..Len(trace) :
       /\ a < b /\ b < c
       /\ trace[a].k = "unicast" /\ trace[a].ids = {plugins[1].id}
       /\ trace[a].ev = GameEv("EnemySpawned", 7, 2, "Skeleton", 0, 0, <<>>)
       /\ trace[b].k = "game" /\ trace[b].cmd = DespawnEnemy(2)
       /\ trace[b].plugin = plugins[2].id
       /\ trace[b + 1].k = "broadcast"
       /\ trace[b + 1].ids = {plugins[1].id, plugins[2].id}
       /\ trace[b + 1].ev = GameEv("EnemyDied", 0, 2, "Skeleton", 0, 0, <<>>)
       /\ trace[c].k = "game" /\ trace[c].cmd = DespawnEnemy(2)
       /\ trace[c].plugin = plugins[1].id
       /\ trace[c + 1].k = "game"
  /\ Cardinality({k \in 1..Len(trace) : trace[k].k = "broadcast"
                                        /\ trace[k].ev.type = "EnemyDied"}) = 1

(***************************************************************************)
(* C39.  What TriggerGameEvent broadcasts.  A name has the form            *)
(* wave_<s>_start when it begins with "wave_" and what follows ends with   *)
(* "_start", likewise for "_complete"; <s> is a u32 when it is one or more *)
(* decimal digits, after an optional "+", whose value is at most           *)
(* 4294967295.  In every pass of process_game_commands a TriggerGameEvent  *)
(* is followed by at most one event, a broadcast: WaveStarted with the     *)
(* value of <s> for wave_<s>_start with <s> a u32, WaveCompleted with the  *)
(* value of <s> for wave_<s>_complete with <s> a u32, nothing when the     *)
(* name has one of the two forms and <s> is not a u32, and                 *)
(* GameEventTriggered with the name itself for every other name.           *)
(***************************************************************************)
C39_TriggerGameEventBroadcast ==
  call.op \in {"initialize", "run_frame"} =>
    LET Game(k) == trace[k].k = "game"
        digit == <<"0", "1", "2", "3", "4", "5", "6", "7", "8", "9">>
        IsDigit(c) == \E n \in 1..10 : digit[n] = c
        DigitOf(c) == (CHOOSE n \in 1..10 : digit[n] = c) - 1
        Unsigned(str) == IF str # <<>> /\ str[1] = "+" THEN Tail(str) ELSE str
        Significant(d) ==
          LET zeros == {i \in 0..Len(d) : \A j \in 1..i : d[j] = "0"}
              lead == CHOOSE i \in zeros : \A j \in zeros : j <= i
          IN SubSeq(d, lead + 1, Len(d))
        max == <<"4", "2", "9", "4", "9", "6", "7", "2", "9", "5">>
        AtMost(d) ==
          \/ Len(d) < Len(max)
          \/ /\ Len(d) = Len(max)
             /\ \/ d = max
                \/ \E i \in 1..Len(d) :
                     /\ \A j \in 1..(i - 1) : d[j] = max[j]
                     /\ DigitOf(d[i]) < DigitOf(max[i])
        IsU32(str) ==
          LET d == Unsigned(str)
          IN /\ d # <<>>
             /\ \A i \in 1..Len(d) : IsDigit(d[i])
             /\ AtMost(Significant(d))
        ValueOf(str) ==
          LET d == Unsigned(str)
              value[i \in 0..Len(d)] ==
                IF i = 0 THEN 0 ELSE value[i - 1] * 10 + DigitOf(d[i])
          IN value[Len(d)]
        Form(name, suffix) ==
          /\ Len(name) >= Len(WavePrefix) + Len(suffix)
          /\ SubSeq(name, 1, Len(WavePrefix)) = WavePrefix
          /\ SubSeq(name, Len(name) - Len(suffix) + 1, Len(name)) = suffix
        Middle(name, suffix) == SubSeq(name, Len(WavePrefix) + 1, Len(name) - Len(suffix))
        Nothing(k) == k = Len(trace) \/ Game(k + 1)
        Only(k, ev) ==
          /\ k < Len(trace)
          /\ trace[k + 1].k = "broadcast"
          /\ trace[k + 1].ids = {plugins[i].id : i \in 1..Len(plugins)}
          /\ trace[k + 1].ev = ev
          /\ Nothing(k + 1)
    IN \A k \in 1..Len(trace) :
         (Game(k) /\ trace[k].cmd.type = "TriggerGameEvent") =>
           LET name == trace[k].cmd.name
           IN /\ ~(Form(name, StartSuffix) /\ Form(name, CompleteSuffix))
              /\ Form(name, StartSuffix) =>
                   LET n == Middle(name, StartSuffix)
                   IN IF IsU32(n)
                      THEN Only(k, GameEv("WaveStarted", 0, 0, "", ValueOf(n), 0, <<>>))
                      ELSE Nothing(k)
              /\ Form(name, CompleteSuffix) =>
                   LET n == Middle(name, CompleteSuffix)
                   IN IF IsU32(n)
                      THEN Only(k, GameEv("WaveCompleted", 0, 0, "", ValueOf(n), 0, <<>>))
                      ELSE Nothing(k)
              /\ (~Form(name, StartSuffix) /\ ~Form(name, CompleteSuffix)) =>
                   Only(k, GameEv("GameEventTriggered", 0, 0, "", 0, 0, name))

\* The plugins triggered wave_3_start, wave_x_start, wave_12_complete and
\* boss in one frame: WaveStarted{3}, WaveCompleted{12} and
\* GameEventTriggered{boss} were broadcast, in this order, and nothing for
\* wave_x_start.
C39_Witness ==
  /\ call.op = "run_frame"
  /\ LET sent == SelectSeq(trace, LAMBDA e : e.k \in {"unicast", "broadcast"})
         asked == SelectSeq(trace, LAMBDA e : e.k = "game")
     IN /\ Len(asked) = 4
        /\ asked[2].cmd = TriggerGameEvent(WavePrefix \o <<"x">> \o StartSuffix)
        /\ [k \in 1..Len(sent) |-> sent[k].ev]
             = <<GameEv("WaveStarted", 0, 0, "", 3, 0, <<>>),
                 GameEv("WaveCompleted", 0, 0, "", 12, 0, <<>>),
                 GameEv("GameEventTriggered", 0, 0, "", 0, 0, <<"b", "o", "s", "s">>)>>

(***************************************************************************)
(* C40, as amended.  Wave requests alternate.  The events the game plugin  *)
(* has asked the host to trigger are, in order, wave_1_start,              *)
(* wave_1_complete,                                                        *)
(* wave_2_start, wave_2_complete and so on: a start and a complete in      *)
(* turn, the start first, the complete with the number of the start before *)
(* it.  In every on_frame, wave_<n>_start is sent when, and only when, the *)
(* plugin handles a press of key 17 while no wave is active, and           *)
(* wave_number grows by one for each; wave_<n>_complete is sent when, and  *)
(* only when, it handles an EnemyDied while a wave is active and that      *)
(* leaves its enemy map empty: the death of the last enemy in the map, or  *)
(* of an enemy the map does not hold when the map is already empty.  A     *)
(* wave is active exactly after a start that no complete has followed.     *)
(***************************************************************************)
C40_WaveRequestsAlternate ==
  [][call'.op = "game_plugin_on_frame" =>
       LET tr == trace'
           digit == <<"0", "1", "2", "3", "4", "5", "6", "7", "8", "9">>
           Numeral(j) == IF j < 10 THEN <<digit[j + 1]>>
                         ELSE <<digit[(j \div 10) + 1], digit[(j % 10) + 1]>>
           Start(j) == WavePrefix \o Numeral(j) \o StartSuffix
           Complete(j) == WavePrefix \o Numeral(j) \o CompleteSuffix
           Event(k) == tr[k].k = "event"
           Wave(k) == tr[k].k = "request" /\ tr[k].cmd.type = "TriggerGameEvent"
           IsStart(k) == \E j \in 1..(MaxWaves + 1) : tr[k].cmd.name = Start(j)
           IsComplete(k) == \E j \in 1..(MaxWaves + 1) : tr[k].cmd.name = Complete(j)
           \* The requests sent while event e is handled.
           During(e) == {k \in (e + 1)..Len(tr) : \A j \in (e + 1)..k : ~Event(j)}
           KeyW(e) == tr[e].ev.type = "KeyPressed" /\ tr[e].ev.id = 17 /\ tr[e].res = "idle"
           LastDied(e) ==
             /\ tr[e].ev.type = "EnemyDied"
             /\ tr[e].res = "active"
             /\ tr[e].ids \ {tr[e].ev.id} = {}
           waves == SelectSeq(tr, LAMBDA e : e.k = "request"
                                             /\ e.cmd.type = "TriggerGameEvent")
           starts == {k \in 1..Len(tr) : Wave(k) /\ IsStart(k)}
       IN /\ hist'.waves = hist.waves \o [k \in 1..Len(waves) |-> waves[k].cmd.name]
          /\ \A i \in 1..Len(hist'.waves) :
               hist'.waves[i] = IF i % 2 = 1 THEN Start((i + 1) \div 2)
                                ELSE Complete(i \div 2)
          /\ \A k \in 1..Len(tr) : Wave(k) => IsStart(k) \/ IsComplete(k)
          /\ tr # <<>> => Event(1)
          /\ \A e \in 1..Len(tr) :
               Event(e) =>
                 /\ Cardinality({k \in During(e) : Wave(k)}) <= 1
                 /\ KeyW(e) <=> \E k \in During(e) : Wave(k) /\ IsStart(k)
                 /\ LastDied(e) <=> \E k \in During(e) : Wave(k) /\ IsComplete(k)
          /\ game_plugin'.wave_number = game_plugin.wave_number + Cardinality(starts)
          /\ game_plugin'.wave_number = (Len(hist'.waves) + 1) \div 2
          /\ game_plugin'.wave_active <=> Len(hist'.waves) % 2 = 1]_vars

\* Two waves have been started and completed.  In this frame the plugin
\* was told that the only enemy it knew had died while wave 2 was active,
\* and it sent wave_2_complete; the four requests it has sent are
\* wave_1_start, wave_1_complete, wave_2_start and wave_2_complete.
C40_Witness ==
  /\ call.op = "game_plugin_on_frame"
  /\ game_plugin.wave_number = 2
  /\ ~game_plugin.wave_active
  /\ hist.waves = <<WavePrefix \o <<"1">> \o StartSuffix, WavePrefix \o <<"1">> \o CompleteSuffix,
                    WavePrefix \o <<"2">> \o StartSuffix, WavePrefix \o <<"2">> \o CompleteSuffix>>
  /\ \E e \in 1..Len(trace) :
       /\ trace[e].k = "event" /\ trace[e].ev.type = "EnemyDied"
       /\ trace[e].res = "active"
       /\ trace[e].ids = {trace[e].ev.id}
       /\ trace[Len(trace)].k = "request"
       /\ trace[Len(trace)].cmd = TriggerGameEvent(WavePrefix \o <<"2">> \o CompleteSuffix)
\* C40 as stated: wave requests alternate beginning with a start, a start
\* is sent only on a press of key 17 while no wave is active (and
\* wave_number grows by one for each), a complete is sent only on an
\* EnemyDied that empties the enemy map while a wave is active (the map
\* held the enemy that died and nothing else), and it carries the number
\* of the most recent start.
C40_CompleteOnlyWhenMapEmptied ==
  [][call'.op = "game_plugin_on_frame" =>
       LET tr == trace'
           digit == <<"0", "1", "2", "3", "4", "5", "6", "7", "8", "9">>
           Numeral(j) == IF j < 10 THEN <<digit[j + 1]>>
                         ELSE <<digit[(j \div 10) + 1], digit[(j % 10) + 1]>>
           Start(j) == WavePrefix \o Numeral(j) \o StartSuffix
           Complete(j) == WavePrefix \o Numeral(j) \o CompleteSuffix
           Event(k) == tr[k].k = "event"
           Wave(k) == tr[k].k = "request" /\ tr[k].cmd.type = "TriggerGameEvent"
           IsStart(k) == \E j \in 1..(MaxWaves + 1) : tr[k].cmd.name = Start(j)
           IsComplete(k) == \E j \in 1..(MaxWaves + 1) : tr[k].cmd.name = Complete(j)
           During(e) == {k \in (e + 1)..Len(tr) : \A j \in (e + 1)..k : ~Event(j)}
           KeyW(e) == tr[e].ev.type = "KeyPressed" /\ tr[e].ev.id = 17 /\ tr[e].res = "idle"
           Emptied(e) ==
             /\ tr[e].ev.type = "EnemyDied"
             /\ tr[e].res = "active"
             /\ tr[e].ids = {tr[e].ev.id}
           waves == SelectSeq(tr, LAMBDA e : e.k = "request"
                                             /\ e.cmd.type = "TriggerGameEvent")
           starts == {k \in 1..Len(tr) : Wave(k) /\ IsStart(k)}
       IN /\ hist'.waves = hist.waves \o [k \in 1..Len(waves) |-> waves[k].cmd.name]
          /\ \A i \in 1..Len(hist'.waves) :
               hist'.waves[i] = IF i % 2 = 1 THEN Start((i + 1) \div 2)
                                ELSE Complete(i \div 2)
          /\ \A e \in 1..Len(tr) :
               Event(e) =>
                 /\ (\E k \in During(e) : Wave(k) /\ IsStart(k)) => KeyW(e)
                 /\ (\E k \in During(e) : Wave(k) /\ IsComplete(k)) => Emptied(e)
          /\ game_plugin'.wave_number = game_plugin.wave_number + Cardinality(starts)]_vars
====
